---- MODULE Spec2Model ----
(***************************************************************************)
(* State channels, reducers, graph runs and checkpointed threads of the    *)
(* simple-agent exercises.                                                 *)
(*                                                                         *)
(* Part 1: the reducers (pure functions of the exercises) and a channel    *)
(*         that is only ever changed through its reducer (SpecReducers).   *)
(* Part 2: the exercise graphs run step by step by the graph executor,     *)
(*         without a checkpointer (SpecGraph).                             *)
(* Part 3: the /chat server: requests running the checkpointed agent graph *)
(*         on conversation threads (SpecThreads).                          *)
(***************************************************************************)
EXTENDS Integers, Sequences, FiniteSets, TLC

VARIABLES
    rKind,      \* which reducer owns the channel under test
    rInit,      \* the channel's initial value
    rCur,       \* the channel's current value
    rLog        \* append channels: all updates applied so far, in application order

VARIABLES
    gName,      \* the compiled graph being invoked
    gInput,     \* the partial state handed to invoke
    gValues,    \* the run's channel values
    gPrev,      \* the channel values before the last step
    gActive,    \* the nodes of the next step
    gStatus,    \* "idle" | "running" | "done" | "error"
    gErr,       \* the error invoke rejects with, "none" otherwise
    gTrace,     \* the node sets executed so far in this run, one per step
    gWrites,    \* the partial updates returned in the last step, per node
    gRunNo,     \* number of invokes made on this compiled graph
    gLastFinal, \* the result of the previous completed invoke, if any
    gRandom,    \* what Math.random() returns in this run, in tenths
    gCompletion, \* the order in which the nodes of the last step completed
    gOutput     \* what the caller of a completed run receives

VARIABLES
    reqs,       \* the /chat requests received so far, in order of arrival
    store,      \* MemorySaver: the snapshot persisted under each thread_id
    now,        \* Date.now()
    added,      \* per thread: the messages persisted by runs addressed to it
    overlapped  \* the threads on which two runs were in flight at the same time

VARIABLES
    cSent,      \* the events the server wrote to the response, in order
    cWire,      \* the part of the response the client has not read yet
    cFull,      \* fullMessage
    cDone       \* reader.read() has returned done

rvars == <<rKind, rInit, rCur, rLog>>

cvars == <<cSent, cWire, cFull, cDone>>

tvars == <<reqs, store, now, added, overlapped>>

gvars == <<gName, gInput, gValues, gPrev, gActive, gStatus, gErr, gTrace,
           gWrites, gRunNo, gLastFinal, gRandom, gCompletion, gOutput>>

vars == <<rKind, rInit, rCur, rLog,
          gName, gInput, gValues, gPrev, gActive, gStatus, gErr, gTrace,
          gWrites, gRunNo, gLastFinal, gRandom, gCompletion, gOutput,
          reqs, store, now, added, overlapped,
          cSent, cWire, cFull, cDone>>

\* The parts of the state a specification does not use stay at these values
NoValues == [k \in {} |-> 0]

IdleClient ==
    /\ cSent = <<>>
    /\ cWire = <<>>
    /\ cFull = <<>>
    /\ cDone = FALSE

IdleReducers ==
    /\ rKind = "none"
    /\ rInit = <<>>
    /\ rCur = <<>>
    /\ rLog = <<>>

IdleGraph ==
    /\ gName = "none"
    /\ gInput = NoValues
    /\ gValues = NoValues
    /\ gPrev = NoValues
    /\ gActive = {}
    /\ gStatus = "idle"
    /\ gErr = "none"
    /\ gTrace = <<>>
    /\ gWrites = NoValues
    /\ gRunNo = 0
    /\ gLastFinal = NoValues
    /\ gRandom = 0
    /\ gCompletion = <<>>
    /\ gOutput = NoValues

IdleThreads ==
    /\ reqs = <<>>
    /\ store = NoValues
    /\ now = 0
    /\ added = NoValues
    /\ overlapped = {}

----------------------------------------------------------------------------
(* Bounds *)

MaxLen == 3         \* longest channel list explored
MaxUpdLen == 2      \* longest array update explored
MaxOps == 3         \* longest sequence of updates logged for an append channel
MaxReplayLen == 3   \* longest array update replayed on a message list
MaxFoo == 2         \* invoke({foo: n}) is explored for n in 0..MaxFoo
MaxSteps == 5       \* steps explored in one run of a graph with a cycle
MaxRuns == 2        \* invokes explored on one compiled graph
MaxReqs == 2        \* /chat requests explored
MaxTurns == 3       \* steps explored in the run of one /chat request
MaxClock == 1       \* Date.now() is explored from 0 to MaxClock

----------------------------------------------------------------------------
(* Messages *)

\* BaseMessage.id of a message built without an id (JavaScript undefined)
Undef == "<undefined>"

\* JavaScript truthiness of a message id: undefined and "" are falsy
Truthy(id) == id # Undef /\ id # ""

MsgIds == {"1", "2"}
Contents == {"a", "b"}

\* new AIMessage / HumanMessage ({content, id?}); tool_calls lists tool names
Msg(kind, id, content) ==
    [kind |-> kind, id |-> id, content |-> content, tool_calls |-> <<>>]

\* new RemoveMessage({id}) : a tombstone, content is always ""
RemoveMessage(id) ==
    [kind |-> "remove", id |-> id, content |-> "", tool_calls |-> <<>>]

IsRemove(m) == m.kind = "remove"

PlainMsgs == {Msg("ai", i, c) : i \in MsgIds \cup {Undef}, c \in Contents}
UnidentifiedMsgs == {Msg("ai", Undef, c) : c \in Contents}
Tombstones == {RemoveMessage(i) : i \in MsgIds \cup {""}}
MsgUniverse == PlainMsgs \cup Tombstones

\* An update is a single value or an array of values (BaseMessage | BaseMessage[])
Single(v) == [isArray |-> FALSE, val |-> v]
Array(s) == [isArray |-> TRUE, val |-> s]

SeqsUpTo(S, n) == UNION {[1..k -> S] : k \in 0..n}

UpdatesOver(S) == {Single(v) : v \in S} \cup {Array(s) : s \in SeqsUpTo(S, MaxUpdLen)}

\* Array.isArray(update) ? update : [update]
ToArray(update) == IF update.isArray THEN update.val ELSE <<update.val>>

\* result.findIndex((m) => m.id === id), 1-based; 0 stands for -1
findIndex(result, id) ==
    IF \E i \in 1..Len(result) : result[i].id = id
    THEN CHOOSE i \in 1..Len(result) :
            /\ result[i].id = id
            /\ \A j \in 1..(i - 1) : result[j].id # id
    ELSE 0

\* result.splice(index): the element at index and everything after it
spliceToEnd(result, index) == SubSeq(result, 1, index - 1)

\* result.splice(index, 1)
splice1(result, index) ==
    [i \in 1..(Len(result) - 1) |-> IF i < index THEN result[i] ELSE result[i + 1]]

----------------------------------------------------------------------------
(* Reducers *)

\* [...updateArray, ...current]
concatReducerPrepend(current, update) == ToArray(update) \o current

\* concatReducer(current, update)
concatReducer(current, update) == current \o ToArray(update)

\* JavaScript arguments that may be undefined or null
JsUndefined == [tag |-> "undefined", val |-> <<>>]
JsNull == [tag |-> "null", val |-> <<>>]
Defined(v) == [tag |-> "value", val |-> v]

\* a call that throws TypeError (spreading undefined)
TypeError == [tag |-> "TypeError", val |-> <<>>]

\* the reducer without "current || []"
reduceListSafeNoDefault(current, update) ==
    IF update.tag \in {"undefined", "null"} THEN current
    ELSE IF current.tag # "value" THEN TypeError
    ELSE Defined(current.val \o ToArray(update.val))

\* reduceListSafe(current, update)
reduceListSafe(current, update) ==
    LET currentArray == IF current.tag = "value" THEN current.val ELSE <<>>
    IN  IF update.tag \in {"undefined", "null"} THEN Defined(currentArray)
        ELSE Defined(currentArray \o ToArray(update.val))

\* return [...messagesToAdd]: the current list is dropped
addMessages_concatDropsCurrent(current, update) == ToArray(update)

\* addMessages of the chain / router / agent graphs: plain concatenation
addMessages_concat(current, update) == current \o ToArray(update)

\* the loop body with the replaced message moved to the end of the list
IdAwareStepSkewed(result, message) ==
    LET existingIndex == findIndex(result, message.id)
    IN  IF Truthy(message.id) /\ existingIndex # 0
        THEN splice1(result, existingIndex) \o <<message>>
        ELSE Append(result, message)

\* the loop body without the search for the id: every message is pushed
IdAwareStepPush(result, message) == Append(result, message)

\* one iteration of the for loop of the id-aware addMessages
IdAwareStep(result, message) ==
    LET existingIndex == findIndex(result, message.id)
    IN  IF Truthy(message.id) /\ existingIndex # 0
        THEN [result EXCEPT ![existingIndex] = message]
        ELSE Append(result, message)

RECURSIVE IdAwareLoop(_, _)
IdAwareLoop(result, messagesToAdd) ==
    IF messagesToAdd = <<>> THEN result
    ELSE IdAwareLoop(IdAwareStep(result, Head(messagesToAdd)), Tail(messagesToAdd))

\* addMessages of state-reducers / trim-filter: replace by id, else push
addMessages_idAware(current, update) == IdAwareLoop(current, ToArray(update))

\* the loop body with a tombstone that finds no id deleting the oldest message
TombstoneStepDropsOldest(result, msg) ==
    IF IsRemove(msg)
    THEN LET index == findIndex(result, msg.id)
         IN  IF index # 0 THEN splice1(result, index)
             ELSE IF result # <<>> THEN Tail(result) ELSE result
    ELSE IF Truthy(msg.id) /\ findIndex(result, msg.id) # 0
         THEN [result EXCEPT ![findIndex(result, msg.id)] = msg]
         ELSE Append(result, msg)

\* one iteration of the for loop of the tombstone-aware addMessages
TombstoneStep(result, msg) ==
    IF IsRemove(msg)
    THEN LET index == findIndex(result, msg.id)
         IN  IF index # 0 THEN splice1(result, index) ELSE result
    ELSE IF Truthy(msg.id)
         THEN LET existingIndex == findIndex(result, msg.id)
              IN  IF existingIndex # 0
                  THEN [result EXCEPT ![existingIndex] = msg]
                  ELSE Append(result, msg)
         ELSE Append(result, msg)

RECURSIVE TombstoneLoop(_, _)
TombstoneLoop(result, messagesToAdd) ==
    IF messagesToAdd = <<>> THEN result
    ELSE TombstoneLoop(TombstoneStep(result, Head(messagesToAdd)), Tail(messagesToAdd))

\* addMessages of the summarization graphs: RemoveMessage deletes by id
addMessages_tombstone(current, update) == TombstoneLoop(current, ToArray(update))

----------------------------------------------------------------------------
(* A channel changed only through its reducer *)

ReducerKinds == {"concat", "plain", "idAware", "tombstone", "safe"}

\* reducer: (current, update) => current
overwriteKeepsCurrent(current, update) == current

\* reducer: (current, update) => update
overwrite(current, update) == update

Reduce(kind, current, update) ==
    CASE kind = "overwrite" -> overwrite(current, update)
      [] kind = "concat" -> concatReducer(current, update)
      [] kind = "plain" -> addMessages_concat(current, update)
      [] kind = "idAware" -> addMessages_idAware(current, update)
      [] kind = "tombstone" -> addMessages_tombstone(current, update)
      [] kind = "safe" -> reduceListSafe(Defined(current), update).val

Nums == {1, 2}

\* The values a caller or a node may hand to each kind of channel
UpdatesOf(kind) ==
    CASE kind = "concat" -> UpdatesOver(Nums)
      [] kind = "plain" -> UpdatesOver(UnidentifiedMsgs)
      [] kind = "idAware" -> UpdatesOver(MsgUniverse)
      [] kind = "tombstone" -> UpdatesOver(MsgUniverse)
      [] kind = "safe" -> {JsUndefined, JsNull}
                            \cup {Defined(u) : u \in UpdatesOver(Nums)}

\* Initial values: the default [] of every channel, or a list handed to the
\* reducer directly (Test 3, Test 6)
InitialsOf(kind) ==
    CASE kind = "concat" -> {<<>>, <<1>>}
      [] kind = "plain" -> {<<>>, <<Msg("ai", Undef, "a")>>}
      [] kind = "idAware" -> {<<>>}
      [] kind = "tombstone" -> {<<>>}
      [] kind = "safe" -> {<<>>}

InitReducers ==
    /\ rKind \in ReducerKinds
    /\ rInit \in InitialsOf(rKind)
    /\ rCur = rInit
    /\ rLog = <<>>
    /\ IdleGraph
    /\ IdleThreads
    /\ IdleClient

Apply(kind, update) ==
    /\ rKind = kind
    /\ Len(Reduce(kind, rCur, update)) <= MaxLen
    /\ Len(rLog) < MaxOps
    /\ rCur' = Reduce(kind, rCur, update)
    /\ rLog' = IF kind \in {"concat", "plain"} THEN Append(rLog, update) ELSE rLog
    /\ UNCHANGED <<rKind, rInit>>
    /\ UNCHANGED <<gvars, tvars, cvars>>

ApplyConcat == \E u \in UpdatesOf("concat") : Apply("concat", u)
ApplyPlain == \E u \in UpdatesOf("plain") : Apply("plain", u)
ApplyIdAware == \E u \in UpdatesOf("idAware") : Apply("idAware", u)
ApplyTombstone == \E u \in UpdatesOf("tombstone") : Apply("tombstone", u)
ApplySafe == \E u \in UpdatesOf("safe") : Apply("safe", u)

NextReducers ==
    ApplyConcat \/ ApplyPlain \/ ApplyIdAware \/ ApplyTombstone \/ ApplySafe

SpecReducers == InitReducers /\ [][NextReducers]_vars

----------------------------------------------------------------------------
(* Part 2: the exercise graphs *)

START == "__start__"
END == "__end__"

Graphs ==
    {"graphDefault", "graphBranch", "graphSingle", "graphSummary", "reactGraph",
     "graphSimple", "graphTyped", "graphBranchList", "graphPrivate",
     "graphRouter", "graphFilter", "validateAndInvoke", "graphSummaryMemory"}

\* the summarization graph, compiled without and with a checkpointer
SummaryGraphs == {"graphSummary", "graphSummaryMemory"}

\* builder.compile({ checkpointer: memory }), invoked under one thread_id
Checkpointed(g) == g = "graphSummaryMemory"

\* builder.addNode(...), in registration order
Nodes(g) ==
    CASE g = "graphDefault" -> <<"node_1">>
      [] g = "graphBranch" -> <<"node_1", "node_2", "node_3">>
      [] g \in {"graphSingle", "validateAndInvoke"} ->
            <<"thinking_node", "answer_node">>
      [] g \in SummaryGraphs -> <<"conversation", "summarize_conversation">>
      [] g = "reactGraph" -> <<"assistant", "tools">>
      [] g \in {"graphSimple", "graphTyped"} -> <<"node_1", "node_2", "node_3">>
      [] g = "graphBranchList" -> <<"node_1", "node_2", "node_3">>
      [] g = "graphPrivate" -> <<"node_1", "node_2">>
      [] g = "graphRouter" -> <<"tool_calling_llm", "tools">>
      [] g = "graphFilter" -> <<"filter", "chat_model">>

builderDefault_edges == {<<START, "node_1">>, <<"node_1", END>>}

\* node_3 chained after node_2 instead of beside it
builderBranch_edgesChained ==
    {<<START, "node_1">>, <<"node_1", "node_2">>, <<"node_2", "node_3">>,
     <<"node_3", END>>}

builderBranch_edges ==
    {<<START, "node_1">>, <<"node_1", "node_2">>, <<"node_1", "node_3">>,
     <<"node_2", END>>, <<"node_3", END>>}

builderSingle_edges ==
    {<<START, "thinking_node">>, <<"thinking_node", "answer_node">>,
     <<"answer_node", END>>}

\* the summary step leads back to the conversation
builderSummary_edgesBack ==
    {<<START, "conversation">>, <<"summarize_conversation", "conversation">>}

builderSummary_edges ==
    {<<START, "conversation">>, <<"summarize_conversation", END>>}

\* the tools lead to END as in the router graph
builderReact_edgesToolsToEnd == {<<START, "assistant">>, <<"tools", END>>}

builderReact_edges == {<<START, "assistant">>, <<"tools", "assistant">>}

\* node_2 is also reached by a plain edge from node_1
builderSimple_edgesBoth ==
    {<<START, "node_1">>, <<"node_1", "node_2">>, <<"node_2", END>>, <<"node_3", END>>}

\* simple-graph: the edge out of node_1 is conditional (decide_mood)
builderSimple_edges == {<<START, "node_1">>, <<"node_2", END>>, <<"node_3", END>>}

builderTyped_edges == {<<START, "node_1">>, <<"node_2", END>>, <<"node_3", END>>}

\* node_3 chained after node_2 instead of beside it
builderBranchList_edgesChained ==
    {<<START, "node_1">>, <<"node_1", "node_2">>, <<"node_2", "node_3">>,
     <<"node_3", END>>}

builderBranchList_edges ==
    {<<START, "node_1">>, <<"node_1", "node_2">>, <<"node_1", "node_3">>,
     <<"node_2", END>>, <<"node_3", END>>}

builderPrivate_edges == {<<START, "node_1">>, <<"node_1", "node_2">>, <<"node_2", END>>}

\* the tools lead back to the model as in the agent graph
builderRouter_edgesLoop ==
    {<<START, "tool_calling_llm">>, <<"tools", "tool_calling_llm">>}

\* router: the tools lead to END
builderRouter_edges == {<<START, "tool_calling_llm">>, <<"tools", END>>}

builderFilter_edges ==
    {<<START, "filter">>, <<"filter", "chat_model">>, <<"chat_model", END>>}

\* builder.addEdge(from, to)
Edges(g) ==
    CASE g = "graphDefault" -> builderDefault_edges
      [] g = "graphBranch" -> builderBranch_edges
      [] g \in {"graphSingle", "validateAndInvoke"} -> builderSingle_edges
      [] g \in SummaryGraphs -> builderSummary_edges
      [] g = "reactGraph" -> builderReact_edges
      [] g = "graphSimple" -> builderSimple_edges
      [] g = "graphTyped" -> builderTyped_edges
      [] g = "graphBranchList" -> builderBranchList_edges
      [] g = "graphPrivate" -> builderPrivate_edges
      [] g = "graphRouter" -> builderRouter_edges
      [] g = "graphFilter" -> builderFilter_edges

\* builderBranchList: foo: { reducer: concatReducer }
builderBranchList_channels == [k \in {"foo"} |-> "concat"]

\* baz declared as a channel beside foo
builderPrivate_channelsWithBaz == [k \in {"foo", "baz"} |-> "overwrite"]

\* builderPrivate: foo is the only channel
builderPrivate_channels == [k \in {"foo"} |-> "overwrite"]

\* channels: { key: { reducer } }
ChannelReducer(g) ==
    CASE g \in {"graphDefault", "graphBranch"} -> [k \in {"foo"} |-> "overwrite"]
      [] g \in {"graphSingle", "validateAndInvoke"} ->
            [k \in {"question", "answer", "notes"} |-> "overwrite"]
      [] g \in SummaryGraphs ->
            [k \in {"messages", "summary"} |->
                IF k = "messages" THEN "tombstone" ELSE "overwrite"]
      [] g = "reactGraph" -> [k \in {"messages"} |-> "plain"]
      [] g = "graphSimple" -> [k \in {"graph_state"} |-> "overwrite"]
      [] g = "graphTyped" -> [k \in {"name", "mood"} |-> "overwrite"]
      [] g = "graphBranchList" -> builderBranchList_channels
      [] g = "graphPrivate" -> builderPrivate_channels
      [] g = "graphRouter" -> [k \in {"messages"} |-> "plain"]
      [] g = "graphFilter" -> [k \in {"messages"} |-> "idAware"]

\* default: () => a list shared with the previous run
messagesDefaultShared ==
    IF gStatus = "done" /\ "messages" \in DOMAIN gValues THEN gValues.messages ELSE <<>>

\* default: () => []
messagesDefault == <<>>

\* channels: { key: { default } }
Defaults(g) ==
    CASE g \in {"graphDefault", "graphBranch"} -> [k \in {"foo"} |-> 0]
      [] g \in {"graphSingle", "validateAndInvoke"} ->
            [k \in {"question", "answer", "notes"} |-> ""]
      [] g \in SummaryGraphs ->
            [k \in {"messages", "summary"} |->
                IF k = "messages" THEN messagesDefault ELSE ""]
      [] g = "reactGraph" -> [k \in {"messages"} |-> messagesDefault]
      [] g = "graphSimple" -> [k \in {"graph_state"} |-> <<>>]
      [] g = "graphTyped" ->
            [k \in {"name", "mood"} |-> IF k = "name" THEN <<>> ELSE "happy"]
      [] g = "graphBranchList" -> [k \in {"foo"} |-> <<>>]
      [] g = "graphPrivate" -> [k \in DOMAIN builderPrivate_channels |-> 0]
      [] g = "graphRouter" -> [k \in {"messages"} |-> messagesDefault]
      [] g = "graphFilter" -> [k \in {"messages"} |-> messagesDefault]

\* A partial update with one key, with two keys
Upd1(k, v) == [x \in {k} |-> v]
Upd2(k1, v1, k2, v2) == [x \in {k1, k2} |-> IF x = k1 THEN v1 ELSE v2]

\* state.messages.slice(0, -2)
AllButLast2(list) == SubSeq(list, 1, Len(list) - 2)

\* state.messages[state.messages.length - 1]
Last(list) == list[Len(list)]

(* Node functions *)

node_1_default(state) == Upd1("foo", state.foo + 1)
node_1_branch(state) == Upd1("foo", state.foo + 1)
node_2_branch(state) == Upd1("foo", state.foo + 1)
node_3_branch(state) == Upd1("foo", state.foo + 1)

thinking_node(state) == Upd2("answer", "bye", "notes", "... his name is Lance")

\* answer_node returning the notes key as well
answer_nodeWithNotes(state) == Upd2("answer", "bye Lance", "notes", "")

answer_node(state) == Upd1("answer", "bye Lance")

\* call_model returning an empty summary next to the response
call_modelResetsSummary(state, response) ==
    Upd2("messages", Array(<<response>>), "summary", "")

\* call_model: the model's response is appended; summary is not returned
call_model(state, response) == Upd1("messages", Array(<<response>>))

\* m.id || ""
IdOrEmpty(m) == IF Truthy(m.id) THEN m.id ELSE ""

\* summarize_conversation: new summary, tombstones for all but the last 2
summarize_conversation(state, response) ==
    LET newSummary == IF response.content = "<structured>" THEN "" ELSE response.content
        messagesToRemove == AllButLast2(state.messages)
        removeMessages ==
            [i \in 1..Len(messagesToRemove) |-> RemoveMessage(IdOrEmpty(messagesToRemove[i]))]
    IN  Upd2("summary", newSummary, "messages", Array(removeMessages))

\* assistant: the model's message (with or without tool_calls) is appended
assistant(state, result) == Upd1("messages", Array(<<result>>))

\* new ToolNode(tools): one ToolMessage per tool call of the last AI message
ToolNode(state) ==
    LET calls == Last(state.messages).tool_calls
    IN  Upd1("messages",
             Array([i \in 1..Len(calls) |-> Msg("tool", Undef, calls[i])]))

(* simple-graph and state-schema; a string built by a template is the
   sequence of its pieces *)

node_1(state) == Upd1("graph_state", state.graph_state \o <<" I am">>)
node_2(state) == Upd1("graph_state", state.graph_state \o <<" happy!">>)
node_3(state) == Upd1("graph_state", state.graph_state \o <<" sad!">>)

node_1_typed(state) == Upd1("name", state.name \o <<" is ... ">>)
node_2_typed(state) == Upd1("mood", "happy")
node_3_typed(state) == Upd1("mood", "sad")

(* state-reducers, Test 4: nodes writing a one-element array *)

node_1_list(state) == Upd1("foo", Array(<<Last(state.foo) + 1>>))

node_2_list(state) == Upd1("foo", Array(<<Last(state.foo) + 1>>))

\* node_3 computing from a state that already holds node_2's value
node_3_listAfterNode2(state) == Upd1("foo", Array(<<Last(state.foo) + 2>>))

node_3_list(state) == Upd1("foo", Array(<<Last(state.foo) + 1>>))

(* multiple-schemas, Test 1: private state *)

\* undefined + 1
NaN == "NaN"

\* node_1 reads foo and returns { baz: foo + 1 }
node_1_private(state) == Upd1("baz", state.foo + 1)

\* node_2 reads baz and returns { foo: baz + 1 }
node_2_private(state) ==
    Upd1("foo", IF "baz" \in DOMAIN state THEN state.baz + 1 ELSE NaN)

\* router: the model's message (with or without tool_calls) is appended
toolCallingLlm(state, result) == Upd1("messages", Array(<<result>>))

(* trim-filter-messages: the filter graph *)

\* state.messages.slice(-2)
LastTwo(list) ==
    IF Len(list) <= 2 THEN list ELSE SubSeq(list, Len(list) - 1, Len(list))

\* filterMessages: the 2 most recent messages are returned as the update
filterMessages(state) == Upd1("messages", Array(LastTwo(state.messages)))

\* chatModelNodeFiltered: the model's answer is appended
chatModelNodeFiltered(state, result) == Upd1("messages", Array(<<result>>))

NodeFn(g, n, state, reply) ==
    CASE g = "graphDefault" -> node_1_default(state)
      [] g = "graphBranch" /\ n = "node_1" -> node_1_branch(state)
      [] g = "graphBranch" /\ n = "node_2" -> node_2_branch(state)
      [] g = "graphBranch" /\ n = "node_3" -> node_3_branch(state)
      [] g \in {"graphSingle", "validateAndInvoke"} /\ n = "thinking_node" ->
            thinking_node(state)
      [] g \in {"graphSingle", "validateAndInvoke"} /\ n = "answer_node" ->
            answer_node(state)
      [] g \in SummaryGraphs /\ n = "conversation" -> call_model(state, reply)
      [] g \in SummaryGraphs /\ n = "summarize_conversation" ->
            summarize_conversation(state, reply)
      [] g = "reactGraph" /\ n = "assistant" -> assistant(state, reply)
      [] g = "reactGraph" /\ n = "tools" -> ToolNode(state)
      [] g = "graphSimple" /\ n = "node_1" -> node_1(state)
      [] g = "graphSimple" /\ n = "node_2" -> node_2(state)
      [] g = "graphSimple" /\ n = "node_3" -> node_3(state)
      [] g = "graphTyped" /\ n = "node_1" -> node_1_typed(state)
      [] g = "graphTyped" /\ n = "node_2" -> node_2_typed(state)
      [] g = "graphTyped" /\ n = "node_3" -> node_3_typed(state)
      [] g = "graphBranchList" /\ n = "node_1" -> node_1_list(state)
      [] g = "graphBranchList" /\ n = "node_2" -> node_2_list(state)
      [] g = "graphBranchList" /\ n = "node_3" -> node_3_list(state)
      [] g = "graphPrivate" /\ n = "node_1" -> node_1_private(state)
      [] g = "graphPrivate" /\ n = "node_2" -> node_2_private(state)
      [] g = "graphRouter" /\ n = "tool_calling_llm" -> toolCallingLlm(state, reply)
      [] g = "graphRouter" /\ n = "tools" -> ToolNode(state)
      [] g = "graphFilter" /\ n = "filter" -> filterMessages(state)
      [] g = "graphFilter" /\ n = "chat_model" -> chatModelNodeFiltered(state, reply)

(* Routing functions *)

SummarizeAfter == 6

\* messages.length >= 6
should_continueFromSix(state) ==
    IF Len(state.messages) >= SummarizeAfter THEN "summarize_conversation" ELSE END

\* should_continue: summarize when there are more than 6 messages
should_continue(state) ==
    IF Len(state.messages) > SummarizeAfter THEN "summarize_conversation" ELSE END

\* toolsCondition: to the tools when the last AI message has tool_calls
toolsCondition(state) ==
    IF Len(state.messages) > 0 /\ Last(state.messages).kind = "ai"
            /\ Len(Last(state.messages).tool_calls) > 0
    THEN "tools" ELSE END

\* Math.random() in tenths: the two ends and both sides of the threshold
RandomDraws == {0, 4, 5, 9}

Half == 5

\* decide_mood: Math.random() < 0.5 ? "node_2" : "node_3"
decide_mood(state, random) == IF random < Half THEN "node_2" ELSE "node_3"

\* builder.addConditionalEdges(from, router)
Route(g, n, state) ==
    CASE g \in SummaryGraphs /\ n = "conversation" -> {should_continue(state)}
      [] g = "reactGraph" /\ n = "assistant" -> {toolsCondition(state)}
      [] g = "graphRouter" /\ n = "tool_calling_llm" -> {toolsCondition(state)}
      [] g \in {"graphSimple", "graphTyped"} /\ n = "node_1" ->
            {decide_mood(state, gRandom)}
      [] OTHER -> {}

(* The model behind the API: what a call may return *)

AiReply(id, content, calls) ==
    [kind |-> "ai", id |-> id, content |-> content, tool_calls |-> calls]

ReplyIds == <<"r1", "r2", "r3">>

\* the first response identifier not carried by any message of the list
FreshIds(list) ==
    LET free == {i \in 1..Len(ReplyIds) :
                    \A j \in 1..Len(list) : list[j].id # ReplyIds[i]}
    IN  IF free = {} THEN {}
        ELSE {ReplyIds[CHOOSE i \in free : \A k \in free : i <= k]}

Replies(g, active, state) ==
    IF g \in SummaryGraphs /\ "conversation" \in active
    THEN {AiReply(i, "a", <<>>) : i \in {Undef} \cup FreshIds(state.messages)}
    ELSE IF g \in SummaryGraphs /\ "summarize_conversation" \in active
    THEN {AiReply(Undef, c, <<>>) : c \in {"s1", "<structured>"}}
    ELSE IF g = "reactGraph" /\ "assistant" \in active
    THEN {AiReply(Undef, "a", calls) : calls \in {<<>>, <<"add">>}}
    ELSE IF g = "graphFilter" /\ "chat_model" \in active
    THEN {AiReply(i, "a", <<>>) : i \in {Undef} \cup FreshIds(state.messages)}
    ELSE IF g = "graphRouter" /\ "tool_calling_llm" \in active
    THEN {AiReply(Undef, "a", calls) :
            calls \in {<<>>, <<"multiply">>, <<"multiply", "multiply">>}}
    ELSE {AiReply(Undef, "", <<>>)}

(* The graph executor *)

\* applyUpdate(partial): every key of the partial goes through its reducer
applyUpdate(g, values, partial) ==
    [k \in DOMAIN values |->
        IF k \in DOMAIN partial
        THEN Reduce(ChannelReducer(g)[k], values[k], partial[k])
        ELSE values[k]]

\* the partial updates of one step, per node that ran
StepWrites(g, active, values, reply) ==
    [n \in active |-> NodeFn(g, n, values, reply)]

\* two nodes of one step wrote the same overwrite channel
WriteConflict(g, writes) ==
    \E k \in DOMAIN ChannelReducer(g) :
        /\ ChannelReducer(g)[k] = "overwrite"
        /\ \E n1, n2 \in DOMAIN writes :
            n1 # n2 /\ k \in DOMAIN writes[n1] /\ k \in DOMAIN writes[n2]

\* a node of the step returned a key that is not a declared channel
UnknownChannel(g, writes) ==
    \E n \in DOMAIN writes : ~(DOMAIN writes[n] \subseteq DOMAIN ChannelReducer(g))

\* the updates of one step applied in node registration order
RECURSIVE MergeInOrder(_, _, _, _)
MergeInOrder(g, values, order, writes) ==
    IF order = <<>> THEN values
    ELSE LET n == Head(order)
             merged == IF n \in DOMAIN writes
                       THEN applyUpdate(g, values, writes[n])
                       ELSE values
         IN  MergeInOrder(g, merged, Tail(order), writes)

\* the nodes the edges leaving n lead to, given the post-merge state
Destinations(g, n, values) ==
    {e[2] : e \in {x \in Edges(g) : x[1] = n}} \cup Route(g, n, values)

NextNodes(g, active, values) ==
    (UNION {Destinations(g, n, values) : n \in active}) \ {END}

(* Inputs of invoke *)

Human(content) == Msg("human", Undef, content)

Humans(k) == [i \in 1..k |-> Human("h")]

\* numbers of messages handed to the summarization graph: one, and as many
\* as put the list just below and just above the threshold
InputSizes == {1, SummarizeAfter - 1, SummarizeAfter}

(* multiple-schemas: the wrappers around graphSingle *)

\* a question that is no string
NoString == "<42>"

\* what a caller may hand to validateAndInvoke(input: unknown)
RawInputs ==
    {Upd1("question", q) : q \in {"hi", "yo", "", NoString}}
        \cup {NoValues, Upd1("notes", "n"), Upd2("question", "hi", "notes", "n")}

\* a schema that accepts the empty question
InputSchemaAcceptsEmpty(input) ==
    "question" \in DOMAIN input /\ input.question # NoString

\* InputSchema = z.object({ question: z.string().min(1) })
InputSchema(input) ==
    "question" \in DOMAIN input /\ input.question \notin {NoString, ""}

\* schema.parse of an accepted object: the keys of the schema are kept
parse(keys, object) == [k \in keys \cap DOMAIN object |-> object[k]]

\* filterOutput(result) = { answer: result.answer }
filterOutput(result) == [k \in {"answer"} |-> result.answer]

\* invokeWithSchemas: internalInput = { question: input.question, answer: "", notes: "" }
internalInput(input) ==
    [k \in {"question", "answer", "notes"} |->
        IF k = "question" THEN input.question ELSE ""]

\* what the caller of a finished run gets: graph.invoke resolves with the
\* final state; validateAndInvoke with OutputSchema.parse(filterOutput(result))
OutputOf(g, final) ==
    IF g = "validateAndInvoke" THEN parse({"answer"}, filterOutput(final))
    ELSE final

\* messagesWithHistory, and the same conversation built without ids
History(ids) ==
    <<Msg("ai", ids[1], "Hi."), Msg("human", ids[2], "Hi."),
      Msg("ai", ids[3], "So you said"), Msg("human", ids[4], "Yes, I know")>>

InputsOf(g) ==
    CASE g \in {"graphDefault", "graphBranch"} ->
            {Upd1("foo", n) : n \in 0..MaxFoo}
      [] g = "graphSingle" ->
            {Upd1("question", q) : q \in {"hi", "yo"}}
                \cup {[k \in {"question", "answer", "notes"} |->
                        IF k = "question" THEN q ELSE ""] : q \in {"hi", "yo"}}
      [] g \in SummaryGraphs ->
            {Upd1("messages", Array(Humans(k))) : k \in InputSizes}
                \cup {Upd2("messages", Array(Humans(k)), "summary", t) :
                        k \in InputSizes, t \in {"", "s0"}}
      [] g = "reactGraph" ->
            {Upd1("messages", Array(<<Human(c)>>)) : c \in {"q1", "q2"}}
      [] g = "graphSimple" ->
            {Upd1("graph_state", s) : s \in {<<"Hi, this is Lance.">>, <<>>}}
      [] g = "graphTyped" ->
            {Upd2("name", <<"Lance">>, "mood", m) : m \in {"happy", "sad"}}
      [] g = "graphPrivate" -> {Upd1("foo", n) : n \in 0..MaxFoo}
      [] g = "graphRouter" ->
            {Upd1("messages", Array(<<Human(c)>>)) : c \in {"q1", "q2"}}
      [] g = "validateAndInvoke" -> RawInputs
      [] g = "graphFilter" ->
            {Upd1("messages", Array(SubSeq(History(ids), from, 4))) :
                ids \in {<<"1", "2", "3", "4">>, <<Undef, Undef, Undef, Undef>>},
                from \in 1..4}
      [] g = "graphBranchList" ->
            {Upd1("foo", Array(s)) : s \in {<<1>>, <<2>>, <<1, 2>>}}
                \cup {Upd1("foo", Single(1))}

\* the orders in which the nodes of one step can complete
CompletionOrders(active) ==
    {s \in [1..Cardinality(active) -> active] :
        \A i, j \in DOMAIN s : i # j => s[i] # s[j]}

(* A compiled graph without a checkpointer *)

InitGraph ==
    /\ IdleReducers
    /\ IdleThreads
    /\ IdleClient
    /\ gName \in Graphs
    /\ gInput = NoValues
    /\ gValues = NoValues
    /\ gPrev = NoValues
    /\ gActive = {}
    /\ gStatus = "idle"
    /\ gErr = "none"
    /\ gTrace = <<>>
    /\ gWrites = NoValues
    /\ gRunNo = 0
    /\ gLastFinal = NoValues
    /\ gRandom = 0
    /\ gCompletion = <<>>
    /\ gOutput = NoValues

\* the state a run starts from: the snapshot saved by the last step on the
\* thread when the graph has a checkpointer and the thread exists, the channel
\* defaults otherwise
Loaded(g) ==
    IF Checkpointed(g) /\ gRunNo > 0 THEN gValues ELSE Defaults(g)

\* graph.invoke(input): the run starts from the loaded state and the input
\* is merged through the reducers; the edge leaving START gives the first step
Invoke ==
    /\ gStatus \in {"idle", "done", "error"}
    /\ gRunNo < MaxRuns
    /\ \E input \in InputsOf(gName) :
        /\ gInput' = input
        /\ gPrev' = Loaded(gName)
        /\ IF gName = "validateAndInvoke" /\ ~InputSchema(input)
           THEN /\ gValues' = NoValues
                /\ gActive' = {}
                /\ gStatus' = "error"
                /\ gErr' = "ZodError"
           ELSE /\ gValues' = applyUpdate(gName, Loaded(gName),
                                IF gName = "validateAndInvoke"
                                THEN internalInput(parse({"question"}, input))
                                ELSE input)
                /\ gActive' = NextNodes(gName, {START}, Defaults(gName))
                /\ gStatus' = "running"
                /\ gErr' = "none"
    /\ gOutput' = NoValues
    /\ gTrace' = <<>>
    /\ gWrites' = NoValues
    /\ gRunNo' = gRunNo + 1
    /\ gLastFinal' = IF gStatus = "done" THEN gValues ELSE gLastFinal
    /\ gRandom' \in (IF gName \in {"graphSimple", "graphTyped"}
                      THEN RandomDraws ELSE {0})
    /\ gCompletion' = <<>>
    /\ UNCHANGED <<gName>>
    /\ UNCHANGED <<rvars, tvars, cvars>>

\* one step: every active node runs on the same snapshot, the updates are
\* merged, the outgoing edges are resolved against the merged state
Step ==
    /\ gStatus = "running"
    /\ Len(gTrace) < MaxSteps
    /\ \E reply \in Replies(gName, gActive, gValues) :
        LET writes == StepWrites(gName, gActive, gValues, reply)
            merged == MergeInOrder(gName, gValues, Nodes(gName), writes)
            next == NextNodes(gName, gActive, merged)
        IN  /\ gWrites' = writes
            /\ gCompletion' \in CompletionOrders(gActive)
            /\ gTrace' = Append(gTrace, gActive)
            /\ gPrev' = gValues
            /\ IF UnknownChannel(gName, writes)
               THEN /\ gStatus' = "error"
                    /\ gErr' = "UnknownChannelError"
                    /\ gValues' = gValues
                    /\ gActive' = {}
                    /\ gOutput' = NoValues
               ELSE IF WriteConflict(gName, writes)
               THEN /\ gStatus' = "error"
                    /\ gErr' = "ConcurrentWriteConflict"
                    /\ gValues' = gValues
                    /\ gActive' = {}
                    /\ gOutput' = NoValues
               ELSE /\ gValues' = merged
                    /\ gActive' = next
                    /\ gStatus' = IF next = {} THEN "done" ELSE "running"
                    /\ gErr' = "none"
                    /\ gOutput' = IF next = {} THEN OutputOf(gName, merged)
                                  ELSE NoValues
    /\ UNCHANGED <<gName, gInput, gRunNo, gLastFinal, gRandom>>
    /\ UNCHANGED <<rvars, tvars, cvars>>

NextGraph == Invoke \/ Step

SpecGraph == InitGraph /\ [][NextGraph]_vars

----------------------------------------------------------------------------
(* Part 3: the /chat server on the checkpointed agent graph *)

\* thread ids a client names in the request body
ClientThreads == {"A", "B"}

\* `thread_${Date.now()}`
GeneratedThreadIds == <<"thread_0", "thread_1", "thread_2", "thread_3">>
ThreadIdOf(clock) == GeneratedThreadIds[clock + 1]

AllThreads == ClientThreads \cup {ThreadIdOf(c) : c \in 0..MaxClock}

\* a body field that is present but is not a string
NotAString == "<number>"

\* req.body: { message, thread_id }
Bodies ==
    [message : {"q1", "q2", "", Undef, NotAString},
     thread_id : ClientThreads \cup {Undef}]

\* only the empty string is turned away
InvalidMessageEmptyOnly(message) == message = ""

\* !message || typeof message !== "string"
InvalidMessage(message) == message \in {"", Undef, NotAString}

\* every request is handled under the one thread id "A"
configFixedThread(threadId) == [thread_id |-> "A"]

\* const config = { configurable: { thread_id: threadId } }
config(threadId) == [thread_id |-> threadId]

(* Checkpoint adapter: key-value storage keyed by the thread id *)

load(st, id) == st[id]

save(st, id, snapshot) == [st EXCEPT ![id] = snapshot]

\* the state a run starts from: the loaded snapshot, or the channel defaults,
\* with the input merged through the channel reducers
InitialState(g, st, id, input) ==
    LET base == IF load(st, id) = NoValues THEN Defaults(g) ELSE load(st, id)
    IN  applyUpdate(g, base, input)

\* the number of messages of thread id that are persisted
PersistedCount(st, id) ==
    IF load(st, id) = NoValues THEN 0 ELSE Len(load(st, id).messages)

\* the messages the nodes of one step returned, in node registration order
RECURSIVE ReturnedMessages(_, _)
ReturnedMessages(order, writes) ==
    IF order = <<>> THEN <<>>
    ELSE LET n == Head(order)
             own == IF n \in DOMAIN writes /\ "messages" \in DOMAIN writes[n]
                    THEN ToArray(writes[n]["messages"]) ELSE <<>>
         IN  own \o ReturnedMessages(Tail(order), writes)

NoReply == [thread_id |-> Undef, response |-> Undef, message_count |-> 0,
            error |-> Undef, details |-> Undef]

\* res.status(400).json({ error })
Rejected(body) ==
    [body |-> body, threadId |-> Undef, cfg |-> config(Undef), phase |-> "rejected",
     values |-> NoValues, active |-> {}, turns |-> 0, base |-> 0,
     appended |-> <<>>, status |-> 400,
     reply |-> [NoReply EXCEPT !.error = "message required"]]

\* a request whose run has loaded its thread and merged its human message
Accepted(body, threadId) ==
    LET cfg == config(threadId)
        input == Upd1("messages", Array(<<Human(body.message)>>))
    IN  [body |-> body, threadId |-> threadId, cfg |-> cfg, phase |-> "running",
         values |-> InitialState("reactGraph", store, cfg.thread_id, input),
         active |-> NextNodes("reactGraph", {START}, Defaults("reactGraph")),
         turns |-> 0,
         base |-> PersistedCount(store, cfg.thread_id),
         appended |-> <<>>, status |-> 0, reply |-> NoReply]

InFlight(threadId) ==
    \E i \in DOMAIN reqs : reqs[i].phase \in {"running", "streamed"}
                            /\ reqs[i].threadId = threadId

InitThreads ==
    /\ IdleReducers
    /\ IdleGraph
    /\ IdleClient
    /\ reqs = <<>>
    /\ store = [t \in AllThreads |-> NoValues]
    /\ now = 0
    /\ added = [t \in AllThreads |-> <<>>]
    /\ overlapped = {}

\* app.post("/chat"): validation, thread id, start of the run; the clock read
\* by Date.now() is at or after the last reading
ChatArrive ==
    /\ Len(reqs) < MaxReqs
    /\ \E body \in Bodies, clock \in now..MaxClock :
        /\ now' = clock
        /\ IF InvalidMessage(body.message)
           THEN /\ reqs' = Append(reqs, Rejected(body))
                /\ UNCHANGED overlapped
           ELSE LET threadId == IF Truthy(body.thread_id) THEN body.thread_id
                                ELSE ThreadIdOf(clock)
                IN  /\ reqs' = Append(reqs, Accepted(body, threadId))
                    /\ overlapped' = IF InFlight(threadId)
                                     THEN overlapped \cup {threadId} ELSE overlapped
    /\ UNCHANGED <<store, added>>
    /\ UNCHANGED <<rvars, gvars, cvars>>

\* one step of the run of request i: the active nodes run, their updates are
\* merged and the snapshot is saved under the run's thread id
ChatStep(i) ==
    /\ reqs[i].phase = "running"
    /\ reqs[i].turns < MaxTurns
    /\ \E reply \in Replies("reactGraph", reqs[i].active, reqs[i].values) :
        LET r == reqs[i]
            writes == StepWrites("reactGraph", r.active, r.values, reply)
            merged == MergeInOrder("reactGraph", r.values, Nodes("reactGraph"), writes)
            next == NextNodes("reactGraph", r.active, merged)
            returned == ReturnedMessages(Nodes("reactGraph"), writes)
            fresh == IF r.turns = 0
                     THEN <<Human(r.body.message)>> \o returned ELSE returned
        IN  /\ reqs' = [reqs EXCEPT ![i] =
                    [r EXCEPT !.values = merged,
                              !.active = next,
                              !.turns = r.turns + 1,
                              !.appended = r.appended \o returned,
                              !.phase = IF next = {} THEN "streamed" ELSE "running"]]
            /\ store' = save(store, r.cfg.thread_id, merged)
            /\ added' = [added EXCEPT ![r.threadId] = added[r.threadId] \o fresh]
    /\ UNCHANGED <<now, overlapped>>
    /\ UNCHANGED <<rvars, gvars, cvars>>

\* what the model's API client rejects with
ModelErrors == {[message |-> "401 Incorrect API key provided: sk-..."]}

\* catch (error): res.status(500).json({ error, details: error.message })
InternalError(error) ==
    [NoReply EXCEPT !.error = "Erreur interne du serveur",
                    !.details = error.message]

\* the failing run leaves its current values, input included, in the thread
ChatStepFailsKeepsInput(i) ==
    /\ reqs[i].phase = "running"
    /\ "assistant" \in reqs[i].active
    /\ \E error \in ModelErrors :
        reqs' = [reqs EXCEPT ![i] =
            [reqs[i] EXCEPT !.phase = "failed",
                            !.active = {},
                            !.status = 500,
                            !.reply = InternalError(error)]]
    /\ store' = save(store, reqs[i].cfg.thread_id, reqs[i].values)
    /\ UNCHANGED <<now, added, overlapped>>
    /\ UNCHANGED <<rvars, gvars, cvars>>

\* the model call of the assistant node rejects: the run aborts, nothing of the
\* step is merged or saved, the handler answers 500 with error.message
ChatStepFails(i) ==
    /\ reqs[i].phase = "running"
    /\ "assistant" \in reqs[i].active
    /\ \E error \in ModelErrors :
        reqs' = [reqs EXCEPT ![i] =
            [reqs[i] EXCEPT !.phase = "failed",
                            !.active = {},
                            !.status = 500,
                            !.reply = InternalError(error)]]
    /\ UNCHANGED <<store, now, added, overlapped>>
    /\ UNCHANGED <<rvars, gvars, cvars>>

\* the state is read before the last step of the run was saved
ChatRespondBeforeLastSave(i) ==
    /\ reqs[i].phase = "streamed"
    /\ LET r == reqs[i]
           state == load(store, r.cfg.thread_id)
           allMessages == SubSeq(state.messages, 1, Len(state.messages) - 1)
       IN  reqs' = [reqs EXCEPT ![i] =
               [r EXCEPT !.phase = "responded",
                         !.status = 200,
                         !.reply = [NoReply EXCEPT
                                       !.thread_id = r.threadId,
                                       !.response = Last(allMessages).content,
                                       !.message_count = Len(allMessages)]]]
    /\ UNCHANGED <<store, now, added, overlapped>>
    /\ UNCHANGED <<rvars, gvars, cvars>>

\* after the stream: getState(config), the last message is the response
ChatRespond(i) ==
    /\ reqs[i].phase = "streamed"
    /\ LET r == reqs[i]
           state == load(store, r.cfg.thread_id)
           allMessages == state.messages
       IN  reqs' = [reqs EXCEPT ![i] =
               [r EXCEPT !.phase = "responded",
                         !.status = 200,
                         !.reply = [NoReply EXCEPT
                                       !.thread_id = r.threadId,
                                       !.response = Last(allMessages).content,
                                       !.message_count = Len(allMessages)]]]
    /\ UNCHANGED <<store, now, added, overlapped>>
    /\ UNCHANGED <<rvars, gvars, cvars>>

NextThreads ==
    \/ ChatArrive
    \/ \E i \in DOMAIN reqs : ChatStep(i)
    \/ \E i \in DOMAIN reqs : ChatStepFails(i)
    \/ \E i \in DOMAIN reqs : ChatRespond(i)

SpecThreads == InitThreads /\ [][NextThreads]_vars

----------------------------------------------------------------------------
(* Properties of the reducers (SpecReducers) *)

\* Update messages that carry an identifier
IdentifiedMsgs == {m \in MsgUniverse : Truthy(m.id)}

\* C2: in the id-aware addMessages, an update message whose identifier equals
\* the identifier of the element at position i replaces that element in place:
\* same length, the update at position i, every other element where it was.
C2_ReplaceInPlace ==
    rKind = "idAware" =>
        \A i \in 1..Len(rCur) : \A m \in IdentifiedMsgs :
            m.id = rCur[i].id =>
                \A u \in {Single(m), Array(<<m>>)} :
                    LET r == addMessages_idAware(rCur, u)
                    IN  /\ Len(r) = Len(rCur)
                        /\ r[i] = m
                        /\ \A j \in 1..Len(rCur) : j # i => r[j] = rCur[j]

\* C2 witness: a three-element list [A, B, C] whose middle element carries an
\* identifier and is replaced by a different message with that identifier.
C2_Witness ==
    /\ rKind = "idAware"
    /\ Len(rCur) = 3
    /\ Truthy(rCur[2].id)
    /\ \E m \in IdentifiedMsgs :
            /\ m.id = rCur[2].id
            /\ m # rCur[2]
            /\ addMessages_idAware(rCur, Single(m)) = <<rCur[1], m, rCur[3]>>

\* Replayed updates: a single identified message, or an array of up to
\* MaxReplayLen identified messages and tombstones
ReplayUpdates ==
    {Single(m) : m \in IdentifiedMsgs}
        \cup {Array(q) : q \in SeqsUpTo(IdentifiedMsgs, MaxReplayLen)}

\* C3: the message-list merge is idempotent for updates whose messages all
\* carry identifiers: applying the same update a second time changes nothing.
C3_Idempotent ==
    rKind \in {"idAware", "tombstone"} =>
        \A u \in ReplayUpdates :
            Reduce(rKind, Reduce(rKind, rCur, u), u) = Reduce(rKind, rCur, u)

\* The list without the messages carrying the identifier id
Without(list, id) == SelectSeq(list, LAMBDA m : m.id # id)

\* C4: in the tombstone-aware addMessages, a RemoveMessage removes the message
\* with its identifier and nothing else, the remaining messages keep their
\* relative order, and a RemoveMessage matching no message changes nothing.
C4_RemoveExactlyOne ==
    rKind = "tombstone" =>
        \A t \in Tombstones : \A u \in {Single(t), Array(<<t>>)} :
            LET r == addMessages_tombstone(rCur, u)
            IN  IF \E i \in 1..Len(rCur) : rCur[i].id = t.id
                THEN /\ Len(r) = Len(rCur) - 1
                     /\ r = Without(rCur, t.id)
                ELSE r = rCur

\* C4 witness: a list of three messages whose first message is removed by a
\* tombstone while the two others stay.
C4_Witness ==
    /\ rKind = "tombstone"
    /\ Len(rCur) = 3
    /\ Truthy(rCur[1].id)
    /\ addMessages_tombstone(rCur, Single(RemoveMessage(rCur[1].id)))
            = <<rCur[2], rCur[3]>>

\* The items an update contributes: a scalar counts as a one-element list
Items(u) == IF u.isArray THEN u.val ELSE <<u.val>>

RECURSIVE Flatten(_)
Flatten(log) == IF log = <<>> THEN <<>> ELSE Items(Head(log)) \o Flatten(Tail(log))

RECURSIVE SumSizes(_)
SumSizes(log) ==
    IF log = <<>> THEN 0
    ELSE (IF Head(log).isArray THEN Len(Head(log).val) ELSE 1) + SumSizes(Tail(log))

\* C5: an append channel holds its initial value followed by all updates in
\* application order; its length is the initial length plus the update sizes.
C5_Accumulates ==
    rKind \in {"concat", "plain"} =>
        /\ rCur = rInit \o Flatten(rLog)
        /\ Len(rCur) = Len(rInit) + SumSizes(rLog)

\* C5 witness: a non-empty initial value followed by a scalar update and an
\* array update with a different item.
C5_Witness ==
    /\ rKind = "concat"
    /\ rInit = <<1>>
    /\ Len(rLog) = 2
    /\ ~rLog[1].isArray /\ rLog[1].val = 2
    /\ rLog[2].isArray /\ rLog[2].val = <<1>>
    /\ rCur = <<1, 2, 1>>

----------------------------------------------------------------------------
(* Properties of the graph runs (SpecGraph) *)

Ended == gStatus \in {"done", "error"}

\* C1: in graphBranch, node_2 and node_3 run in the same step and both write
\* the overwrite channel foo: invoke fails with a concurrent-write error and
\* foo keeps node_1's value, neither node_2's nor node_3's value is applied.
C1_ConcurrentWriteRejected ==
    gName = "graphBranch" =>
        /\ Ended =>
            /\ gStatus = "error"
            /\ gErr = "ConcurrentWriteConflict"
            /\ gTrace = <<{"node_1"}, {"node_2", "node_3"}>>
            /\ gValues.foo = gInput.foo + 1
        /\ gStatus = "running" => Len(gTrace) <= 1

\* C1 witness: invoke({foo: 1}) has run node_1, then node_2 and node_3
\* together, and has failed with foo = 2.
C1_Witness ==
    /\ gName = "graphBranch"
    /\ gInput = Upd1("foo", 1)
    /\ gTrace = <<{"node_1"}, {"node_2", "node_3"}>>
    /\ gWrites = [n \in {"node_2", "node_3"} |-> Upd1("foo", 3)]
    /\ gStatus = "error"
    /\ gErr = "ConcurrentWriteConflict"
    /\ gValues.foo = 2

\* the nodes whose update of the last step holds the key k
Writers(k) == {n \in DOMAIN gWrites : k \in DOMAIN gWrites[n]}

\* C6: an overwrite channel written by a single node in a step holds, after
\* the step, the value that node returned, whatever it held before; so
\* graphDefault ends with foo = input + 1 and graphSingle with "bye Lance".
C6_OverwriteLastWins ==
    /\ (gStatus \in {"running", "done"} /\ gTrace # <<>>) =>
         \A k \in DOMAIN gValues :
            (ChannelReducer(gName)[k] = "overwrite" /\ Cardinality(Writers(k)) = 1)
                => \A n \in Writers(k) : gValues[k] = gWrites[n][k]
    /\ (gName = "graphDefault" /\ gStatus = "done") => gValues.foo = gInput.foo + 1
    /\ (gName = "graphSingle" /\ gStatus = "done") => gValues.answer = "bye Lance"

\* C6 witness: graphSingle has ended after answer_node overwrote the answer
\* "bye" written by thinking_node one step earlier.
C6_Witness ==
    /\ gName = "graphSingle"
    /\ gStatus = "done"
    /\ gTrace = <<{"thinking_node"}, {"answer_node"}>>
    /\ gPrev.answer = "bye"
    /\ gValues.answer = "bye Lance"

\* C7: a step leaves unchanged every channel whose key is in no partial update
\* of the step: in graphSingle question stays the caller's input and notes keeps
\* thinking_node's value after answer_node; in the summarization graph the
\* conversation node does not change summary.
C7_AbsentKeysUnchanged ==
    /\ gTrace # <<>> =>
         \A k \in DOMAIN gValues : Writers(k) = {} => gValues[k] = gPrev[k]
    /\ (gName = "graphSingle" /\ gStatus # "idle") =>
         /\ gValues.question = gInput.question
         /\ Len(gTrace) >= 1 => gValues.notes = "... his name is Lance"
    /\ (gName = "graphSummary" /\ gTrace # <<>>
            /\ gTrace[Len(gTrace)] = {"conversation"}) =>
         gValues.summary = gPrev.summary

\* C7 witness: the conversation node has run on a state whose summary is not
\* empty and has appended the model's response.
C7_Witness ==
    /\ gName = "graphSummary"
    /\ gTrace = <<{"conversation"}>>
    /\ gPrev.summary = "s0"
    /\ gValues.summary = "s0"
    /\ Len(gValues.messages) = Len(gPrev.messages) + 1

\* C9: without a checkpointer every invoke starts from the channel defaults:
\* the state the first node of a run sees holds only that run's input
\* messages, whatever earlier runs ended with.
C9_InvokeStartsFromDefaults ==
    (gName = "reactGraph" /\ gStatus = "running" /\ gTrace = <<>>) =>
        gValues.messages = gInput.messages.val

\* C9 witness: a second invoke, made after a first one that ended with several
\* messages, is about to run its first node on its own input message only.
C9_Witness ==
    /\ gName = "reactGraph"
    /\ gRunNo = 2
    /\ gLastFinal # NoValues
    /\ Len(gLastFinal.messages) >= 4
    /\ gStatus = "running"
    /\ gTrace = <<>>
    /\ gActive = {"assistant"}
    /\ Len(gValues.messages) = 1

----------------------------------------------------------------------------
(* Properties of the /chat server and its threads (SpecThreads) *)

CompletedRun(i) == reqs[i].phase \in {"streamed", "responded"}

\* request j is the run that follows run i on their thread, and no two runs
\* of that thread were ever in flight together
Sequential(i, j) ==
    /\ i < j
    /\ CompletedRun(i)
    /\ CompletedRun(j)
    /\ reqs[i].threadId = reqs[j].threadId
    /\ reqs[i].threadId \notin overlapped
    /\ \A k \in DOMAIN reqs : (i < k /\ k < j) => reqs[k].threadId # reqs[i].threadId

\* C8: for two sequential runs of the checkpointed graph on one thread_id, the
\* final messages of the second run are all the final messages of the first
\* run, in order, followed by the second run's human message and then the
\* messages the second run's nodes returned
C8_SecondRunContinuesFirst ==
    \A i \in DOMAIN reqs : \A j \in DOMAIN reqs :
        Sequential(i, j) =>
            reqs[j].values.messages =
                reqs[i].values.messages \o <<Human(reqs[j].body.message)>>
                    \o reqs[j].appended

C8_Witness ==
    \E i \in DOMAIN reqs : \E j \in DOMAIN reqs :
        /\ Sequential(i, j)
        /\ reqs[i].phase = "responded"
        /\ reqs[j].phase = "responded"
        /\ reqs[i].body.message # reqs[j].body.message
        /\ Len(reqs[j].appended) = 3

PersistedMessages(t) == IF store[t] = NoValues THEN <<>> ELSE store[t].messages

Range(list) == {list[i] : i \in DOMAIN list}

\* what is persisted under a thread id came from requests addressed to it, and
\* what a run loaded is the beginning of its own thread
C10_OwnMessagesOnly ==
    /\ \A t \in AllThreads :
        /\ Range(PersistedMessages(t)) \subseteq Range(added[t])
        /\ t \notin overlapped => PersistedMessages(t) = added[t]
    /\ \A i \in DOMAIN reqs :
        (reqs[i].phase # "rejected" /\ reqs[i].threadId \notin overlapped) =>
            /\ reqs[i].base <= Len(added[reqs[i].threadId])
            /\ SubSeq(reqs[i].values.messages, 1, reqs[i].base)
                 = SubSeq(added[reqs[i].threadId], 1, reqs[i].base)

\* a step that changes the snapshot of thread t is a step of a request
\* addressed to t
C10_OwnSnapshotOnly ==
    \A t \in AllThreads :
        store'[t] # store[t] =>
            \E i \in DOMAIN reqs :
                /\ reqs[i].threadId = t
                /\ reqs'[i] # reqs[i]

Unnamed(i) == reqs[i].phase # "rejected" /\ ~Truthy(reqs[i].body.thread_id)

\* C11: two /chat requests that carry no thread_id, also two that arrive
\* together, get distinct generated thread ids
C11_GeneratedIdsDistinct ==
    \A i \in DOMAIN reqs : \A j \in DOMAIN reqs :
        (i # j /\ Unnamed(i) /\ Unnamed(j)) => reqs[i].threadId # reqs[j].threadId

----------------------------------------------------------------------------
(* Properties of the graphs with a conditional edge (SpecGraph) *)

MoodGraphs == {"graphSimple", "graphTyped"}

OneBranch == {{"node_2"}, {"node_3"}}

\* what the run of a mood graph must end with, given the branch it took
MoodResult(branch) ==
    IF gName = "graphSimple"
    THEN Upd1("graph_state",
              gInput.graph_state \o <<" I am">>
                  \o (IF branch = {"node_2"} THEN <<" happy!">> ELSE <<" sad!">>))
    ELSE Upd2("name", gInput.name \o <<" is ... ">>,
              "mood", IF branch = {"node_2"} THEN "happy" ELSE "sad")

\* C12: in a graph with a conditional edge from node_1 to node_2 or node_3,
\* every run executes node_1 first and then exactly one of node_2 and node_3,
\* and the final state holds the update of the chosen node only
C12_ExactlyOneBranch ==
    gName \in MoodGraphs =>
        /\ Len(gTrace) <= 2
        /\ Len(gTrace) >= 1 => gTrace[1] = {"node_1"}
        /\ Len(gTrace) >= 2 => gTrace[2] \in OneBranch
        /\ (gStatus = "running" /\ Len(gTrace) = 0) => gActive = {"node_1"}
        /\ (gStatus = "running" /\ Len(gTrace) = 1) => gActive \in OneBranch
        /\ gStatus # "error"
        /\ gStatus = "done" =>
            /\ Len(gTrace) = 2
            /\ gValues = MoodResult(gTrace[2])

C12_Witness ==
    /\ gName = "graphSimple"
    /\ gStatus = "done"
    /\ gRunNo = 2
    /\ gTrace = <<{"node_1"}, {"node_3"}>>
    /\ gValues.graph_state = <<"Hi, this is Lance.", " I am", " sad!">>

----------------------------------------------------------------------------
(* Properties of parallel nodes on an append channel (SpecGraph) *)

\* the run of graphBranchList has executed node_2 and node_3 in one step
BothBranchesRan ==
    /\ gName = "graphBranchList"
    /\ Len(gTrace) = 2
    /\ gTrace[2] = {"node_2", "node_3"}

InputList == ToArray(gInput.foo)

\* C14: node_2 and node_3 both read the snapshot node_1's step left and none
\* sees the other's update: both return the last value of that snapshot plus
\* one, and the run invoked with foo = [1] ends with [1, 2, 3, 3]
C14_SameSnapshotForAll ==
    gName = "graphBranchList" =>
        /\ Len(gTrace) >= 1 =>
            /\ gTrace[1] = {"node_1"}
            /\ Len(gTrace) = 1 => gValues.foo = InputList \o <<Last(InputList) + 1>>
        /\ BothBranchesRan =>
            /\ gPrev.foo = InputList \o <<Last(InputList) + 1>>
            /\ gWrites["node_2"].foo = Array(<<Last(gPrev.foo) + 1>>)
            /\ gWrites["node_3"].foo = Array(<<Last(gPrev.foo) + 1>>)
            /\ gInput.foo = Array(<<1>>) => gValues.foo = <<1, 2, 3, 3>>

C14_Witness ==
    /\ BothBranchesRan
    /\ gStatus = "done"
    /\ gInput.foo = Array(<<1>>)
    /\ gWrites["node_2"].foo = Array(<<3>>)
    /\ gWrites["node_3"].foo = Array(<<3>>)
    /\ gCompletion = <<"node_2", "node_3">>

----------------------------------------------------------------------------
(* Properties of failing runs (SpecThreads) *)

\* the step in which the run of request i aborts
Aborts(i) ==
    /\ i \in DOMAIN reqs
    /\ reqs[i].phase = "running"
    /\ reqs'[i].phase = "failed"

\* the messages of the run of request i at the end of its last completed
\* step: what it loaded if no step completed, its current values otherwise
LastCompletedStep(i) ==
    IF reqs[i].turns = 0
    THEN SubSeq(reqs[i].values.messages, 1, reqs[i].base)
    ELSE reqs[i].values.messages

\* when a node fails nothing is merged, no node is left to run and the
\* persisted snapshot is the one of the last completed step
C15_AbortDiscardsStep ==
    \A i \in DOMAIN reqs :
        Aborts(i) =>
            /\ reqs'[i].values = reqs[i].values
            /\ reqs'[i].appended = reqs[i].appended
            /\ reqs'[i].active = {}
            /\ store' = store
            /\ reqs[i].threadId \notin overlapped =>
                   PersistedMessages(reqs[i].threadId)' = LastCompletedStep(i)

\* an aborted run never runs another node
C15_AbortedStaysAborted ==
    \A i \in DOMAIN reqs : reqs[i].phase = "failed" => reqs'[i] = reqs[i]

\* C15: if a node function fails during a run (the model call of assistant
\* rejects), the run aborts immediately, no partial update of the failing node
\* is merged, no later node runs, and the snapshot persisted for the thread is
\* the snapshot of the end of the last completed step
C15_NodeFailureAborts ==
    [][C15_AbortDiscardsStep /\ C15_AbortedStaysAborted]_vars

C15_Witness ==
    \E i \in DOMAIN reqs : \E j \in DOMAIN reqs :
        /\ reqs[i].phase = "failed"
        /\ reqs[i].turns = 2
        /\ reqs[i].threadId \notin overlapped
        /\ PersistedMessages(reqs[i].threadId) = reqs[i].values.messages
        /\ Len(reqs[i].values.messages) = 3
        /\ reqs[j].phase = "failed"
        /\ reqs[j].turns = 0
        /\ reqs[j].threadId # reqs[i].threadId
        /\ PersistedMessages(reqs[j].threadId) = <<>>

\* C16: when a /chat request fails inside the graph run or the model call,
\* the body sent to the HTTP client does not contain the internal exception
\* message of the model's API client
C16_NoInternalMessageSent ==
    \A i \in DOMAIN reqs :
        reqs[i].status = 500 =>
            \A error \in ModelErrors :
                /\ reqs[i].reply.details # error.message
                /\ reqs[i].reply.error # error.message
                /\ reqs[i].reply.response # error.message

----------------------------------------------------------------------------
(* Properties of the private-state graph (SpecGraph) *)

C18_PrivateStatePassed ==
    (gName = "graphPrivate" /\ gStatus \in {"done", "error"}) =>
        /\ gStatus = "done"
        /\ gTrace = <<{"node_1"}, {"node_2"}>>
        /\ gValues = Upd1("foo", gInput.foo + 2)

----------------------------------------------------------------------------
(* Properties of the checkpointer (SpecThreads) *)

\* the final values of a run of a graph whose single node returns an empty
\* partial update, started with an empty input on thread t of storage st
NoOpRun(st, t) ==
    LET initial == InitialState("reactGraph", st, t, NoValues)
    IN  applyUpdate("reactGraph", initial, NoValues)

\* save(id, S) then load(id) then a no-op run ends with S
RoundTrip(t) ==
    LET S == store[t]
        st == save(store, t, S)
    IN  /\ load(st, t) = S
        /\ NoOpRun(st, t) = S

\* getState after the run of request i gives the values the run ended with
StateAfterRun(i) ==
    /\ load(store, reqs[i].cfg.thread_id) = reqs[i].values
    /\ reqs[i].phase = "responded" =>
        /\ reqs[i].reply.message_count = Len(reqs[i].values.messages)
        /\ reqs[i].reply.response = Last(reqs[i].values.messages).content

----------------------------------------------------------------------------
(* Properties of the agent loop (SpecGraph) *)

\* the message a node of the agent graph returned in the last step
Returned(n) == ToArray(gWrites[n].messages)

\* C20: in the agent graph every tools step is followed by an assistant step,
\* and a run ends only directly after an assistant step whose message has no
\* tool_calls: the last message of every completed run is an AI message
\* without tool_calls
C20_AgentLoop ==
    gName = "reactGraph" =>
        /\ \A k \in DOMAIN gTrace :
            /\ gTrace[k] \in {{"assistant"}, {"tools"}}
            /\ (gTrace[k] = {"tools"} /\ k < Len(gTrace)) => gTrace[k + 1] = {"assistant"}
            /\ (gTrace[k] = {"tools"} /\ k = Len(gTrace)) =>
                   (gStatus = "running" /\ gActive = {"assistant"})
            /\ (gTrace[k] = {"tools"}) => (k > 1 /\ gTrace[k - 1] = {"assistant"})
        /\ (gStatus = "running" /\ gTrace # <<>> /\ Last(gTrace) = {"assistant"}) =>
               (gActive = {"tools"} /\ Len(Returned("assistant")[1].tool_calls) > 0)
        /\ gStatus = "done" =>
            /\ Last(gTrace) = {"assistant"}
            /\ Returned("assistant") = <<Last(gValues.messages)>>
            /\ Last(gValues.messages).kind = "ai"
            /\ Last(gValues.messages).tool_calls = <<>>
        /\ gStatus # "error"

C20_Witness ==
    /\ gName = "reactGraph"
    /\ gStatus = "done"
    /\ gTrace = <<{"assistant"}, {"tools"}, {"assistant"}, {"tools"}, {"assistant"}>>
    /\ Len(gValues.messages) = 6

----------------------------------------------------------------------------
(* Properties of the router graph (SpecGraph) *)

\* C21: in the router graph tool_calling_llm executes exactly once per run and
\* tools at most once: with tool_calls in the model's message the run goes to
\* tools and ends there with a ToolMessage as last message, otherwise it ends
\* right after the model node
C21_RouterRunsModelOnce ==
    (gName = "graphRouter" /\ gTrace # <<>>) =>
        /\ gTrace[1] = {"tool_calling_llm"}
        /\ Len(gTrace) <= 2
        /\ gStatus # "error"
        /\ Len(gTrace) = 1 =>
            /\ gValues.messages = ToArray(gInput.messages) \o Returned("tool_calling_llm")
            /\ IF Last(gValues.messages).tool_calls = <<>>
               THEN gStatus = "done"
               ELSE gStatus = "running" /\ gActive = {"tools"}
        /\ Len(gTrace) = 2 =>
            /\ gTrace[2] = {"tools"}
            /\ gStatus = "done"
            /\ Last(gPrev.messages).tool_calls # <<>>
            /\ Last(gValues.messages).kind = "tool"
            /\ Len(gValues.messages) =
                   Len(gPrev.messages) + Len(Last(gPrev.messages).tool_calls)

C21_Witness ==
    /\ gName = "graphRouter"
    /\ gStatus = "done"
    /\ gTrace = <<{"tool_calling_llm"}, {"tools"}>>
    /\ Len(gValues.messages) = 4
    /\ gRunNo = 2

----------------------------------------------------------------------------
(* Properties of the summarization graph (SpecGraph) *)

\* the conversation node's step of a run of the summarization graph is done
AfterConversation ==
    /\ gName = "graphSummary"
    /\ Len(gTrace) = 1
    /\ gTrace[1] = {"conversation"}

\* C22: after the conversation node's update is merged the run goes to
\* summarize_conversation if and only if the messages channel then holds more
\* than 6 messages; with 6 or fewer the run ends and summary is not modified
C22_SummarizeAboveSix ==
    /\ (gName = "graphSummary" /\ Len(gTrace) >= 1) => gTrace[1] = {"conversation"}
    /\ AfterConversation =>
        IF Len(gValues.messages) > 6
        THEN gStatus = "running" /\ gActive = {"summarize_conversation"}
        ELSE /\ gStatus = "done"
             /\ gActive = {}
             /\ gValues.summary = gPrev.summary

C22_Witness ==
    /\ AfterConversation
    /\ Len(gValues.messages) = 6
    /\ gStatus = "done"
    /\ gValues.summary = "s0"

\* the summarize_conversation step of a run of the summarization graph is done
AfterSummarize ==
    /\ gName = "graphSummary"
    /\ Len(gTrace) = 2
    /\ gTrace[2] = {"summarize_conversation"}

\* the last 2 elements of a list
Last2(list) == SubSeq(list, Len(list) - 1, Len(list))

\* C23: after summarize_conversation's update is merged the messages channel
\* holds exactly the 2 most recent messages of the pre-step list, in their
\* order, and every older message is removed, also when the list holds human
\* messages created without an id
C23_OnlyLastTwoKept ==
    AfterSummarize => gValues.messages = Last2(gPrev.messages)

----------------------------------------------------------------------------
(* Properties of the filter graph (SpecGraph) *)

\* the 2 most recent messages handed to the run of the filter graph
RecentInput ==
    LET input == ToArray(gInput.messages)
    IN  SubSeq(input, IF Len(input) > 2 THEN Len(input) - 1 ELSE 1, Len(input))

\* C24: in graphFilter, after the filter node's step the messages channel
\* holds only the 2 most recent messages, chat_model is invoked with exactly
\* those, and the final state holds them plus the model's answer
C24_FilterKeepsLastTwo ==
    (gName = "graphFilter" /\ gTrace # <<>>) =>
        /\ gTrace[1] = {"filter"}
        /\ Len(gTrace) = 1 => gValues.messages = RecentInput
        /\ Len(gTrace) = 2 =>
            /\ gTrace[2] = {"chat_model"}
            /\ gPrev.messages = RecentInput
            /\ gValues.messages = RecentInput \o Returned("chat_model")

----------------------------------------------------------------------------
(* Properties of request validation (SpecThreads) *)

\* the request that arrives in this step
Arrived == reqs'[Len(reqs')]

\* the body carries no message, an empty one or one that is not a string
BadBody(body) == body.message \in {Undef, "", NotAString}

\* C25: a POST /chat without message, with an empty or a non-string message
\* is answered with status 400 and an error body and has no other effect: no
\* run starts, no model reply is drawn, no thread is created, no persisted
\* snapshot changes, and the request is never taken up again
C25_InvalidBodyRejected ==
    [][/\ (Len(reqs') = Len(reqs) + 1 /\ BadBody(Arrived.body)) =>
            /\ Arrived.status = 400
            /\ Arrived.reply.error # Undef
            /\ Arrived.reply.response = Undef
            /\ Arrived.reply.thread_id = Undef
            /\ Arrived.phase = "rejected"
            /\ Arrived.values = NoValues
            /\ Arrived.active = {}
            /\ Arrived.appended = <<>>
            /\ store' = store
            /\ added' = added
            /\ overlapped' = overlapped
       /\ \A i \in DOMAIN reqs :
            BadBody(reqs[i].body) => reqs'[i] = reqs[i]]_vars

\* a body without message was turned away on a thread that holds a conversation
C25_Witness ==
    \E i, j \in DOMAIN reqs :
        /\ i < j
        /\ reqs[i].phase = "responded"
        /\ store[reqs[i].threadId] # NoValues
        /\ reqs[j].body.message = Undef
        /\ reqs[j].body.thread_id = reqs[i].threadId
        /\ reqs[j].status = 400

----------------------------------------------------------------------------
(* Properties of runs that overlap on one thread (SpecThreads) *)

\* run j loaded its thread after run i had saved its last snapshot
RanAfter(i, j) ==
    /\ Len(reqs[i].values.messages) <= reqs[j].base
    /\ SubSeq(reqs[j].values.messages, 1, Len(reqs[i].values.messages))
         = reqs[i].values.messages

\* C26: runs addressed to one thread_id are serialized: of two completed runs
\* of a thread one started from the other's final snapshot, and once the
\* thread is quiet it holds every human message and every answer of its runs
C26_SameThreadSerialized ==
    /\ \A i \in DOMAIN reqs : \A j \in DOMAIN reqs :
        (i < j /\ CompletedRun(i) /\ CompletedRun(j)
               /\ reqs[i].threadId = reqs[j].threadId) =>
            RanAfter(i, j) \/ RanAfter(j, i)
    /\ \A t \in AllThreads :
        (~InFlight(t) /\ \A i \in DOMAIN reqs : reqs[i].phase # "failed") =>
            Len(PersistedMessages(t)) = Len(added[t])

----------------------------------------------------------------------------
(* Properties of messages without id (SpecReducers) *)

IsUnidentified(m) == m.id = Undef

\* the messages of a list that were built without id, in order
Unidentified(list) == SelectSeq(list, IsUnidentified)

\* C27: messages without id are append-only in every addMessages variant: an
\* update message without id is appended at the end and replaces nothing, and
\* no update (a RemoveMessage with id "" included) replaces or removes a
\* listed message without id
C27_UnidentifiedAppendOnly ==
    rKind \in {"plain", "idAware", "tombstone"} =>
        \A u \in UpdatesOf(rKind) :
            LET upd == ToArray(u)
                r == Reduce(rKind, rCur, u)
            IN  /\ Unidentified(r) = Unidentified(rCur) \o Unidentified(upd)
                /\ Unidentified(upd) = upd => r = rCur \o upd
                /\ (upd # <<>> /\ IsUnidentified(upd[Len(upd)])) =>
                       r[Len(r)] = upd[Len(upd)]

\* the tombstone-aware list holds two messages without id next to one with id
C27_Witness ==
    /\ rKind = "tombstone"
    /\ Len(rCur) = 3
    /\ Len(Unidentified(rCur)) = 2
    /\ Truthy(rCur[2].id)

----------------------------------------------------------------------------
(* Properties of the validating wrapper (SpecGraph) *)

\* the caller's input has no question or an empty one
NoQuestion == "question" \notin DOMAIN gInput \/ gInput.question = ""

\* C28: validateAndInvoke rejects an input whose question is empty or missing
\* with a validation error before any node executes; for a valid input the
\* run is not rejected and the caller receives an object whose only key is
\* answer
C28_ValidateAndInvoke ==
    (gName = "validateAndInvoke" /\ gStatus # "idle") =>
        /\ NoQuestion =>
            /\ gStatus = "error"
            /\ gErr = "ZodError"
            /\ gTrace = <<>>
            /\ gOutput = NoValues
        /\ (~NoQuestion /\ gInput.question # NoString) =>
            /\ gStatus # "error"
            /\ gValues.question = gInput.question
            /\ gStatus = "done" =>
                /\ DOMAIN gOutput = {"answer"}
                /\ gOutput.answer = gValues.answer

\* a valid call answered after a call that was rejected
C28_Witness ==
    /\ gName = "validateAndInvoke"
    /\ gRunNo = 2
    /\ gLastFinal = NoValues
    /\ gStatus = "done"
    /\ "notes" \in DOMAIN gInput
    /\ gOutput = [answer |-> "bye Lance"]

----------------------------------------------------------------------------
(* Properties of the reducer that tolerates undefined (SpecReducers) *)

\* C29: reduceListSafe never fails; it agrees with concatReducer when current
\* and update are both defined, returns current unchanged when update is
\* undefined or null, and treats an undefined current as the empty list
C29_SafeReducer ==
    rKind = "safe" =>
        \A current \in {Defined(rCur), JsUndefined} :
            \A update \in UpdatesOf("safe") :
                LET r == reduceListSafe(current, update)
                IN  /\ r.tag = "value"
                    /\ (current.tag = "value" /\ update.tag = "value") =>
                           r.val = concatReducer(current.val, update.val)
                    /\ (current.tag = "value" /\ update.tag # "value") =>
                           r.val = current.val
                    /\ current.tag = "undefined" =>
                           r.val = reduceListSafe(Defined(<<>>), update).val

\* the reducer has added an array and a single number to the default list
C29_Witness ==
    /\ rKind = "safe"
    /\ rInit = <<>>
    /\ rCur = <<2, 1, 2>>

----------------------------------------------------------------------------
(* Properties of the summary of a checkpointed thread (SpecGraph) *)

\* the summary the thread holds: the channel default before the first run
ThreadSummary(values) == IF values = NoValues THEN "" ELSE values.summary

\* the summary changes in this step
SummaryChanges == ThreadSummary(gValues') # ThreadSummary(gValues)

\* this step executes summarize_conversation
SummarizeStep ==
    /\ gTrace' = Append(gTrace, gActive)
    /\ "summarize_conversation" \in gActive

\* this step is an invoke whose input has a summary key
InvokeWithSummary ==
    /\ gRunNo' = gRunNo + 1
    /\ "summary" \in DOMAIN gInput'

\* C30: on a thread of the checkpointed summarization graph the summary
\* changes only in a step that executes summarize_conversation or in an invoke
\* whose input has a summary key; a run with only messages in its input that
\* ends after the conversation step ends with the summary the thread had
C30_SummaryChangesOnlyBySummarize ==
    [][/\ (gName = "graphSummaryMemory" /\ SummaryChanges) =>
            (SummarizeStep \/ InvokeWithSummary)
       /\ (gName = "graphSummaryMemory" /\ gStatus' = "done" /\ Len(gTrace') = 1
            /\ "summary" \notin DOMAIN gInput') =>
                gValues'.summary = ThreadSummary(gLastFinal')]_vars

\* the second run of a thread had only messages in its input, ended after the
\* conversation step and left the summary of the first run in place
C30_Witness ==
    /\ gName = "graphSummaryMemory"
    /\ gRunNo = 2
    /\ gStatus = "done"
    /\ Len(gTrace) = 1
    /\ "summary" \notin DOMAIN gInput
    /\ gValues.summary = "s0"
    /\ Len(gValues.messages) = 4

----------------------------------------------------------------------------
(* Termination of the summarization graph (SpecGraph) *)

\* C31: every invoke of the summarization graph ends after at most two node
\* executions: conversation runs once, as the first step, then the run ends or
\* summarize_conversation runs once and the run ends; no node runs twice
C31_AtMostTwoSteps ==
    (gName \in SummaryGraphs /\ gStatus # "idle") =>
        /\ Len(gTrace) <= 2
        /\ gStatus # "error"
        /\ Len(gTrace) = 0 => (gStatus = "running" /\ gActive = {"conversation"})
        /\ Len(gTrace) >= 1 => gTrace[1] = {"conversation"}
        /\ (Len(gTrace) = 1 /\ gStatus = "running") =>
               gActive = {"summarize_conversation"}
        /\ Len(gTrace) = 2 =>
            /\ gTrace[2] = {"summarize_conversation"}
            /\ gStatus = "done"
            /\ gActive = {}

\* the second run on a thread that held 7 messages has ended after its two
\* steps
C31_Witness ==
    /\ gName = "graphSummaryMemory"
    /\ gRunNo = 2
    /\ gStatus = "done"
    /\ Len(gTrace) = 2
    /\ Len(gValues.messages) >= 9

----------------------------------------------------------------------------
(* The persisted snapshot during and after a run (SpecThreads) *)

\* C32: with a checkpointer the persisted snapshot of a thread is updated after
\* every completed step of a run: between two steps and after the run ends it
\* equals the run's channel values, and getState right after the run returns
\* the run's final messages
C32_SnapshotFollowsRun ==
    \A i \in DOMAIN reqs :
        /\ (reqs[i].phase \in {"running", "streamed"} /\ reqs[i].turns >= 1) =>
               load(store, reqs[i].cfg.thread_id) = reqs[i].values
        /\ reqs[i].phase = "responded" =>
            /\ reqs[i].reply.message_count = Len(reqs[i].values.messages)
            /\ reqs[i].reply.response = Last(reqs[i].values.messages).content

----------------------------------------------------------------------------
(* Retrying a run that a node failure aborted (SpecThreads) *)

\* request j repeats, on the same thread and after the abort, the input of
\* request i whose run a node failure aborted
RetryOf(i, j) ==
    /\ i < j
    /\ reqs[i].phase = "failed"
    /\ CompletedRun(j)
    /\ reqs[j].threadId = reqs[i].threadId
    /\ reqs[j].body.message = reqs[i].body.message
    /\ reqs[i].threadId \notin overlapped
    /\ \A k \in DOMAIN reqs : (i < k /\ k < j) => reqs[k].threadId # reqs[i].threadId

\* C33: retrying a whole run after a node failure is idempotent: when the
\* retry succeeds the thread holds what one successful run leaves, that is what
\* it held before the aborted run, the human message once, and the messages
\* the retry's nodes returned
C33_RetryIdempotent ==
    \A i \in DOMAIN reqs : \A j \in DOMAIN reqs :
        RetryOf(i, j) =>
            reqs[j].values.messages =
                SubSeq(reqs[i].values.messages, 1, reqs[i].base)
                    \o <<Human(reqs[j].body.message)>> \o reqs[j].appended

----------------------------------------------------------------------------
(* Identifiers in a message list (SpecReducers) *)

\* no two messages of the list carry the same non-empty id
DistinctIds(list) ==
    \A i \in DOMAIN list : \A j \in DOMAIN list :
        (i < j /\ Truthy(list[i].id)) => list[i].id # list[j].id

\* C34: a messages channel with an id-aware addMessages that starts from the
\* default [] never holds two messages with the same non-empty id, and no
\* update makes it so
C34_NoDuplicateIds ==
    rKind \in {"idAware", "tombstone"} =>
        /\ DistinctIds(rCur)
        /\ \A u \in UpdatesOf(rKind) : DistinctIds(Reduce(rKind, rCur, u))

\* both ids are in the list, next to a message without id
C34_Witness ==
    /\ rKind = "idAware"
    /\ Len(rCur) = 3
    /\ \E i \in DOMAIN rCur : rCur[i].id = "1"
    /\ \E i \in DOMAIN rCur : rCur[i].id = "2"
    /\ \E i \in DOMAIN rCur : rCur[i].id = Undef

----------------------------------------------------------------------------
(* Part 4: the streaming /chat server (Server-Sent Events) *)

\* the body the example client sends: its thread is under the key threadId
ClientThreadId == "test-thread-123"

requestData ==
    [threadId |-> ClientThreadId, message |-> "poem", thread_id |-> Undef]

\* req.body of the streaming endpoint
StreamBodies ==
    {[threadId |-> Undef, message |-> m, thread_id |-> t] :
        m \in {"q1", ""}, t \in {"A", Undef}} \cup {requestData}

StreamThreads == AllThreads \cup {ClientThreadId}

\* one SSE event: res.write(`data: ${JSON.stringify({ type, ... })}\n\n`)
NoEvent ==
    [type |-> "", content |-> "", thread_id |-> Undef, message_count |-> 0,
     tools |-> <<>>, error |-> Undef]

ThreadIdEvent(threadId) == [NoEvent EXCEPT !.type = "thread_id", !.thread_id = threadId]
TokenEvent(content) == [NoEvent EXCEPT !.type = "token", !.content = content]
ToolCallEvent(calls) == [NoEvent EXCEPT !.type = "tool_call", !.tools = calls]
ToolResultEvent(content) == [NoEvent EXCEPT !.type = "tool_result", !.content = content]
DoneEvent(count) == [NoEvent EXCEPT !.type = "done", !.message_count = count]
ErrorEvent(message) == [NoEvent EXCEPT !.type = "error", !.error = message]

\* the chunks of a streamed model message that carry content, in order
Chunks(content) ==
    CASE content = "" -> <<>>
      [] content = "ab" -> <<"a", "b">>
      [] OTHER -> <<content>>

\* for await (const chunk of stream): one token event per chunk with content
TokenEvents(content) ==
    [k \in 1..Len(Chunks(content)) |-> TokenEvent(Chunks(content)[k])]

\* llmWithTools.stream(...): the message the chunks add up to
StreamAnswers ==
    {AiReply(Undef, "a", <<>>), AiReply(Undef, "ab", <<>>),
     AiReply(Undef, "", <<"add">>)}

\* llm.stream(...): the model without tools
FinalAnswers == {AiReply(Undef, c, <<>>) : c \in {"a", "ab"}}

\* one tool_result event per ToolMessage of the tools update
RECURSIVE ToolResultEvents(_)
ToolResultEvents(toolMsgs) ==
    IF toolMsgs = <<>> THEN <<>>
    ELSE (IF Head(toolMsgs).kind = "tool"
          THEN <<ToolResultEvent(Head(toolMsgs).content)>> ELSE <<>>)
            \o ToolResultEvents(Tail(toolMsgs))

\* a request record with the fields of the streaming handler
WithStream(r, events, branch) ==
    [f \in DOMAIN r \cup {"events", "branch"} |->
        IF f = "events" THEN events ELSE IF f = "branch" THEN branch ELSE r[f]]

InitStream ==
    /\ IdleReducers
    /\ IdleGraph
    /\ IdleClient
    /\ reqs = <<>>
    /\ store = [t \in StreamThreads |-> NoValues]
    /\ now = 0
    /\ added = [t \in StreamThreads |-> <<>>]
    /\ overlapped = {}

\* app.post("/chat") (streaming): validation, thread id, SSE headers and the
\* thread_id event
StreamArrive ==
    /\ Len(reqs) < MaxReqs
    /\ \E body \in StreamBodies, clock \in now..MaxClock :
        /\ now' = clock
        /\ IF InvalidMessage(body.message)
           THEN reqs' = Append(reqs, WithStream(Rejected(body), <<>>, "none"))
           ELSE LET threadId == IF Truthy(body.thread_id) THEN body.thread_id
                                ELSE ThreadIdOf(clock)
                    opened == [Rejected(body) EXCEPT
                                  !.threadId = threadId,
                                  !.cfg = config(threadId),
                                  !.phase = "opened",
                                  !.status = 200,
                                  !.reply = NoReply]
                IN  reqs' = Append(reqs,
                        WithStream(opened, <<ThreadIdEvent(threadId)>>, "none"))
    /\ UNCHANGED <<store, added, overlapped>>
    /\ UNCHANGED <<rvars, gvars, cvars>>

\* llmWithTools.stream on the thread's messages: the tokens are relayed, the
\* tool calls announced, then the graph is run on the human message, with
\* stream() when tool calls were seen and with invoke() otherwise
StreamPreview(i) ==
    /\ reqs[i].phase = "opened"
    /\ \E aiMessage \in StreamAnswers :
        LET r == reqs[i]
            hasToolCalls == aiMessage.tool_calls # <<>>
            input == Upd1("messages", Array(<<Human(r.body.message)>>))
        IN  reqs' = [reqs EXCEPT ![i] =
                [r EXCEPT
                    !.events = r.events \o TokenEvents(aiMessage.content)
                                 \o (IF hasToolCalls
                                     THEN <<ToolCallEvent(aiMessage.tool_calls)>>
                                     ELSE <<>>),
                    !.branch = IF hasToolCalls THEN "stream" ELSE "invoke",
                    !.phase = "running",
                    !.values = InitialState("reactGraph", store, r.cfg.thread_id, input),
                    !.active = NextNodes("reactGraph", {START}, Defaults("reactGraph")),
                    !.base = PersistedCount(store, r.cfg.thread_id)]]
    /\ overlapped' = IF InFlight(reqs[i].threadId)
                     THEN overlapped \cup {reqs[i].threadId} ELSE overlapped
    /\ UNCHANGED <<store, now, added>>
    /\ UNCHANGED <<rvars, gvars, cvars>>

\* the catch block falling through to the done event
StreamFailedThenDone(r, error) ==
    [r EXCEPT !.phase = "failed",
              !.active = {},
              !.events = r.events \o <<ErrorEvent(error.message), DoneEvent(0)>>]

\* catch (error): the error event is written and the response ended
StreamFailed(r, error) ==
    [r EXCEPT !.phase = "failed",
              !.active = {},
              !.events = r.events \o <<ErrorEvent(error.message)>>]

\* the model call of the handler itself rejects
StreamPreviewFails(i) ==
    /\ reqs[i].phase = "opened"
    /\ \E error \in ModelErrors :
        reqs' = [reqs EXCEPT ![i] = StreamFailed(reqs[i], error)]
    /\ UNCHANGED <<store, now, added, overlapped>>
    /\ UNCHANGED <<rvars, gvars, cvars>>

\* one step of the graph run of request i; with stream() the update of the
\* step is relayed: tool results as tool_result events, and after an assistant
\* message with content the tokens of a further llm.stream call
StreamStep(i) ==
    /\ reqs[i].phase = "running"
    /\ reqs[i].turns < MaxTurns
    /\ \E reply \in Replies("reactGraph", reqs[i].active, reqs[i].values) :
       \E final \in FinalAnswers :
        LET r == reqs[i]
            writes == StepWrites("reactGraph", r.active, r.values, reply)
            merged == MergeInOrder("reactGraph", r.values, Nodes("reactGraph"), writes)
            next == NextNodes("reactGraph", r.active, merged)
            returned == ReturnedMessages(Nodes("reactGraph"), writes)
            fresh == IF r.turns = 0
                     THEN <<Human(r.body.message)>> \o returned ELSE returned
            toolEvents == IF "tools" \in r.active
                          THEN ToolResultEvents(returned) ELSE <<>>
            lastAiMsg == Last(returned)
            finalEvents == IF "assistant" \in r.active /\ lastAiMsg.kind = "ai"
                                /\ lastAiMsg.content # ""
                           THEN TokenEvents(final.content) ELSE <<>>
        IN  /\ reqs' = [reqs EXCEPT ![i] =
                    [r EXCEPT !.values = merged,
                              !.active = next,
                              !.turns = r.turns + 1,
                              !.appended = r.appended \o returned,
                              !.events = IF r.branch = "stream"
                                         THEN r.events \o toolEvents \o finalEvents
                                         ELSE r.events,
                              !.phase = IF next = {} THEN "streamed" ELSE "running"]]
            /\ store' = save(store, r.cfg.thread_id, merged)
            /\ added' = [added EXCEPT ![r.threadId] = added[r.threadId] \o fresh]
    /\ UNCHANGED <<now, overlapped>>
    /\ UNCHANGED <<rvars, gvars, cvars>>

\* the model call of the assistant node rejects: the run aborts, the step is
\* not saved, the handler writes the error event
StreamStepFails(i) ==
    /\ reqs[i].phase = "running"
    /\ "assistant" \in reqs[i].active
    /\ \E error \in ModelErrors :
        reqs' = [reqs EXCEPT ![i] = StreamFailed(reqs[i], error)]
    /\ UNCHANGED <<store, now, added, overlapped>>
    /\ UNCHANGED <<rvars, gvars, cvars>>

\* the assistant step is saved, then the llm.stream call that relays its
\* answer rejects: the handler leaves the run and writes the error event
StreamRelayFails(i) ==
    /\ reqs[i].phase = "running"
    /\ reqs[i].turns < MaxTurns
    /\ reqs[i].branch = "stream"
    /\ "assistant" \in reqs[i].active
    /\ \E reply \in Replies("reactGraph", reqs[i].active, reqs[i].values) :
       \E error \in ModelErrors :
        LET r == reqs[i]
            writes == StepWrites("reactGraph", r.active, r.values, reply)
            merged == MergeInOrder("reactGraph", r.values, Nodes("reactGraph"), writes)
            returned == ReturnedMessages(Nodes("reactGraph"), writes)
            fresh == IF r.turns = 0
                     THEN <<Human(r.body.message)>> \o returned ELSE returned
        IN  /\ Last(returned).content # ""
            /\ reqs' = [reqs EXCEPT ![i] =
                    StreamFailed([r EXCEPT !.values = merged,
                                           !.turns = r.turns + 1,
                                           !.appended = r.appended \o returned],
                                 error)]
            /\ store' = save(store, r.cfg.thread_id, merged)
            /\ added' = [added EXCEPT ![r.threadId] = added[r.threadId] \o fresh]
    /\ UNCHANGED <<now, overlapped>>
    /\ UNCHANGED <<rvars, gvars, cvars>>

\* after the run: getState(config), the done event, res.end()
StreamDone(i) ==
    /\ reqs[i].phase = "streamed"
    /\ LET r == reqs[i]
           state == load(store, r.cfg.thread_id)
       IN  reqs' = [reqs EXCEPT ![i] =
               [r EXCEPT !.phase = "responded",
                         !.events = r.events
                                      \o <<DoneEvent(Len(state.messages))>>]]
    /\ UNCHANGED <<store, now, added, overlapped>>
    /\ UNCHANGED <<rvars, gvars, cvars>>

NextStream ==
    \/ StreamArrive
    \/ \E i \in DOMAIN reqs : StreamPreview(i)
    \/ \E i \in DOMAIN reqs : StreamPreviewFails(i)
    \/ \E i \in DOMAIN reqs : StreamStep(i)
    \/ \E i \in DOMAIN reqs : StreamStepFails(i)
    \/ \E i \in DOMAIN reqs : StreamRelayFails(i)
    \/ \E i \in DOMAIN reqs : StreamDone(i)

SpecStream == InitStream /\ [][NextStream]_vars

----------------------------------------------------------------------------
(* Properties of the event stream (SpecStream) *)

Terminal(e) == e.type \in {"done", "error"}

\* the positions of the terminal events of a stream
TerminalAt(events) == {k \in DOMAIN events : Terminal(events[k])}

\* C35: for every accepted request to the streaming endpoint the first event
\* is the thread_id event; the stream ends with exactly one terminal event,
\* done on success or error on failure, and nothing is written after it; every
\* tool_result event comes after a tool_call event
C35_EventOrder ==
    \A i \in DOMAIN reqs :
        reqs[i].phase # "rejected" =>
            LET events == reqs[i].events
                ended == reqs[i].phase \in {"responded", "failed"}
            IN  /\ events # <<>>
                /\ events[1] = ThreadIdEvent(reqs[i].threadId)
                /\ \A k \in DOMAIN events : events[k].type = "thread_id" => k = 1
                /\ TerminalAt(events) = IF ended THEN {Len(events)} ELSE {}
                /\ reqs[i].phase = "responded" => Last(events).type = "done"
                /\ reqs[i].phase = "failed" => Last(events).type = "error"
                /\ \A k \in DOMAIN events :
                    events[k].type = "tool_result" =>
                        \E j \in 1..(k - 1) : events[j].type = "tool_call"

\* one stream ended with done after a tool call, a tool result and tokens,
\* another ended with error after tokens were relayed
C35_Witness ==
    \E i \in DOMAIN reqs : \E j \in DOMAIN reqs :
        /\ reqs[i].phase = "responded"
        /\ \E k \in DOMAIN reqs[i].events : reqs[i].events[k].type = "tool_result"
        /\ \E k \in DOMAIN reqs[i].events : reqs[i].events[k].type = "token"
        /\ reqs[j].phase = "failed"
        /\ Len(reqs[j].events) >= 3

----------------------------------------------------------------------------
(* What the stream relays and what the thread stores (SpecStream) *)

\* the contents of the token events of a stream, in order
RECURSIVE Relayed(_)
Relayed(events) ==
    IF events = <<>> THEN <<>>
    ELSE (IF Head(events).type = "token" THEN <<Head(events).content>> ELSE <<>>)
            \o Relayed(Tail(events))

\* how many elements of a list have the given value in the given field
CountOf(list, field, value) ==
    Cardinality({k \in DOMAIN list : list[k][field] = value})

\* C36: for a streaming request that ends with done, the token events add up
\* to the content of the assistant answer the request persisted, and every
\* tool execution of the request's graph run is reported by a tool_result
\* event
C36_RelayedIsStored ==
    \A i \in DOMAIN reqs :
        reqs[i].phase = "responded" =>
            /\ Relayed(reqs[i].events) = Chunks(Last(reqs[i].appended).content)
            /\ CountOf(reqs[i].events, "type", "tool_result")
                 = CountOf(reqs[i].appended, "kind", "tool")

----------------------------------------------------------------------------
(* Human messages of a thread (SpecStream) *)

IsHuman(m) == m.kind = "human"

\* the texts of the human messages of a list, in order
HumanTexts(list) ==
    LET humans == SelectSeq(list, IsHuman)
    IN  [k \in DOMAIN humans |-> humans[k].content]

\* the texts of the requests answered successfully on thread t, in request
\* order
RECURSIVE AnsweredTexts(_, _)
AnsweredTexts(t, n) ==
    IF n = 0 THEN <<>>
    ELSE AnsweredTexts(t, n - 1)
            \o (IF reqs[n].threadId = t /\ reqs[n].phase = "responded"
                THEN <<reqs[n].body.message>> ELSE <<>>)

\* no request addressed to thread t is being handled
Quiet(t) ==
    \A i \in DOMAIN reqs :
        reqs[i].threadId = t => reqs[i].phase \in {"responded", "failed"}

\* C37: every accepted /chat request adds exactly one human message with its
\* text to its thread: after k successful requests a thread holds exactly k
\* human messages, in request order
C37_OneHumanPerRequest ==
    \A t \in DOMAIN store :
        Quiet(t) =>
            HumanTexts(IF store[t] = NoValues THEN <<>> ELSE store[t].messages)
                = AnsweredTexts(t, Len(reqs))

----------------------------------------------------------------------------
(* Part 5: the example streaming client *)

MaxEvents == 2      \* data events in one response read by the client

\* the content field of a data event; NoContent for an event without one
NoContent == "<no content>"
EventContents == {"x", "y", NoContent}

\* the text of one event, `data: ${JSON}\n\n`, as the pieces a cut can
\* separate: the prefix "data: " in two halves, the JSON text in an opening
\* part, the content and a closing part, and the two line feeds
LF == "\n"
JsonText(content) ==
    IF content = NoContent THEN <<"{", "}">> ELSE <<"{", content, "}">>
EventText(content) == <<"da", "ta: ">> \o JsonText(content) \o <<LF, LF>>

\* everything the server wrote for a sequence of events
RECURSIVE WireOf(_)
WireOf(contents) ==
    IF contents = <<>> THEN <<>>
    ELSE EventText(Head(contents)) \o WireOf(Tail(contents))

\* chunk.split('\n')
RECURSIVE split(_, _)
split(chunk, line) ==
    IF chunk = <<>> THEN <<line>>
    ELSE IF Head(chunk) = LF THEN <<line>> \o split(Tail(chunk), <<>>)
    ELSE split(Tail(chunk), Append(line, Head(chunk)))

\* line.startsWith('data: ')
startsWithData(line) == Len(line) >= 2 /\ line[1] = "da" /\ line[2] = "ta: "

\* JSON.parse(line.slice(6)) succeeds on a complete object only; the value
\* added to fullMessage is its content field, if it has one
parsedContent(line) ==
    LET data == SubSeq(line, 3, Len(line))
    IN  IF \E c \in EventContents \ {NoContent} : data = JsonText(c)
        THEN <<data[2]>>
        ELSE <<>>

\* the body of the loop over the lines of one chunk
RECURSIVE ContentsOfLines(_)
ContentsOfLines(lines) ==
    IF lines = <<>> THEN <<>>
    ELSE (IF startsWithData(Head(lines)) THEN parsedContent(Head(lines)) ELSE <<>>)
            \o ContentsOfLines(Tail(lines))

InitClient ==
    /\ IdleReducers
    /\ IdleGraph
    /\ IdleThreads
    /\ cSent \in UNION {[1..n -> EventContents] : n \in 1..MaxEvents}
    /\ cWire = WireOf(cSent)
    /\ cFull = <<>>
    /\ cDone = FALSE

\* reader.read() returns the next chunk: any non-empty beginning of what is
\* left of the response
ClientRead ==
    /\ ~cDone
    /\ cWire # <<>>
    /\ \E k \in 1..Len(cWire) :
        LET chunk == SubSeq(cWire, 1, k)
        IN  /\ cFull' = cFull \o ContentsOfLines(split(chunk, <<>>))
            /\ cWire' = SubSeq(cWire, k + 1, Len(cWire))
    /\ UNCHANGED <<cSent, cDone>>
    /\ UNCHANGED <<rvars, gvars, tvars>>

\* reader.read() returns done: the loop is left
ClientEnd ==
    /\ ~cDone
    /\ cWire = <<>>
    /\ cDone' = TRUE
    /\ UNCHANGED <<cSent, cWire, cFull>>
    /\ UNCHANGED <<rvars, gvars, tvars>>

NextClient == ClientRead \/ ClientEnd

SpecClient == InitClient /\ [][NextClient]_vars

\* the content fields of the events the server sent, in order
RECURSIVE ContentFields(_)
ContentFields(contents) ==
    IF contents = <<>> THEN <<>>
    ELSE (IF Head(contents) = NoContent THEN <<>> ELSE <<Head(contents)>>)
            \o ContentFields(Tail(contents))

\* C38: however the response is cut into read() chunks, fullMessage at the
\* end is the concatenation, in order, of the content fields of all data
\* events the server sent
C38_ChunkingIndependent ==
    cDone => cFull = ContentFields(cSent)

----------------------------------------------------------------------------
(* The thread of the example client's requests (SpecStream) *)

SentByClient(i) == reqs[i].body = requestData

\* C39: a request sent by the example client is handled in the thread the
\* client names: the thread_id event and the persisted snapshot use
\* 'test-thread-123', and a second client run sees the messages of the first
C39_ClientThreadUsed ==
    \A i \in DOMAIN reqs :
        SentByClient(i) =>
            /\ reqs[i].threadId = ClientThreadId
            /\ reqs[i].events[1] = ThreadIdEvent(ClientThreadId)
            /\ reqs[i].phase = "responded" => store[ClientThreadId] # NoValues
            /\ \A j \in DOMAIN reqs :
                (SentByClient(j) /\ i < j /\ reqs[i].phase = "responded"
                    /\ reqs[j].phase = "running" /\ reqs[i].threadId \notin overlapped) =>
                        reqs[j].base = Len(reqs[i].values.messages)

====
